---------------------------- MODULE Spec2Model ----------------------------
(***************************************************************************)
(* A model of the file-encryptor core:                                     *)
(*   - the worker pool       (src/src/main/encryptionWorkerManager.ts)     *)
(*   - the cipher engine     (src/unnamed/part_003: encryptFile,           *)
(*                            decryptFile)                                 *)
(*   - the checkpoint store  (src/unnamed/part_002: ResumableOperation)    *)
(*   - the batch processor   (src/src/main/batchProcessor.ts)              *)
(* Each subsystem has its own specification over the same variables; the   *)
(* variables of the other subsystems stay at their initial values.         *)
(***************************************************************************)
EXTENDS Integers, Sequences, FiniteSets, TLC

VARIABLES
    \* ---- EncryptionWorkerManager (encryptionWorkerManager.ts:27-36)
    workers,             \* keys of the Map<string, Worker>
    activeTasksQueue,    \* WorkerTask[] of task ids, head first
    currentWorkerCount,  \* the slot counter
    nextTaskId,          \* ids handed out by generateTaskId so far, plus one
    progressListeners,   \* 'workerProgress' listeners, by the task that added them
    errorListeners,      \* 'workerError' listeners, by the task that added them
    promise,             \* task id -> state of its processFileInBackground promise
    thread,              \* task id -> state of its worker thread
    inbox,               \* task id -> messages the worker posted, not yet handled
    uncaught,            \* exceptions that left a manager event handler
    startOrder,          \* history: task ids in the order startWorker ran
    cancelledTasks,      \* history: ids removed by cancelTask / cancelAllTasks
    shutdownCall,        \* the shutdown() call: its position and how it resolved
    \* ---- file system and the engine (part_003: encryptFile, decryptFile)
    files,               \* path -> [exists, data]: the files on disk
    enc,                 \* the encryptFile call: its locals and position
    dec,                 \* the decryptFile call: its locals and position
    \* ---- ResumableOperation (part_002:119-459)
    checkpoint,          \* the record checkpoints/<id>.json, or none
    temp,                \* the file temp/<id>.temp
    clock,               \* Date.now(), in days
    res,                 \* the resumeOperation / canResumeOperation call in
                         \* progress: its locals, position and outcome
    \* ---- BatchProcessor (batchProcessor.ts:30-216)
    isProcessing,        \* the flag of the same name
    shouldCancel,        \* the flag of the same name
    run,                 \* the processFiles call: its arguments, locals and position
    emitted,             \* history: the BatchProgress copies handed to onProgress
    engineCalls,         \* history: starts and ends of the engine calls of the run
    visits,              \* history: the indices the loop of the run reached
    existing,            \* the output paths at which a file exists
    fileHistory,         \* FileHistoryManager's recent files, newest first
    secondCall,          \* what a processFiles call made during a run got
    \* ---- batchProcessWithDownload (part_003:240-325)
    download,            \* the batchProcessWithDownload call: its arguments,
                         \* locals, position, and the target directory
    \* ---- overlapping resumeOperation calls (part_002:209-347)
    resumes              \* call -> the resumeOperation call: its locals
                         \* (the checkpoint it loaded among them) and position

poolVars == <<workers, activeTasksQueue, currentWorkerCount, nextTaskId,
              progressListeners, errorListeners, promise, thread, inbox,
              uncaught, startOrder, cancelledTasks, shutdownCall>>

engineVars == <<files, enc, dec>>

storeVars == <<checkpoint, temp, clock, res>>

processorVars == <<isProcessing, shouldCancel, run, emitted, engineCalls,
                   visits, existing, fileHistory, secondCall>>

batchVars == <<processorVars, download, resumes>>

vars == <<poolVars, engineVars, storeVars, batchVars>>

nonPoolVars == <<engineVars, storeVars, batchVars>>

-----------------------------------------------------------------------------
(***************************************************************************)
(* Worker pool                                                             *)
(***************************************************************************)

\* constructor(maxWorkers = 4): the pool size of the modelled manager.
maxWorkers == 1

\* Number of processFileInBackground calls explored.
MaxTasks == 3

TaskIds == 1..MaxTasks

TerminalStatus == {"completed", "error"}

WorkerStatus == {"processing"} \cup TerminalStatus

\* Thread states of a worker:
\*   none      no Worker object yet
\*   started   new Worker(...) ran, the script has posted nothing yet
\*   running   the initial 'processing' message was posted
\*   finished  a terminal status was posted; the thread stays alive because
\*             of its parentPort 'message' listener
\*   crashed   an uncaught exception in the worker: 'error' event pending
\*   exiting   terminate() was called or the thread crashed: 'exit' (code 1)
\*             pending
\*   exited    the 'exit' event was handled
ThreadStates == {"none", "started", "running", "finished", "crashed",
                 "exiting", "exited"}

\* worker.terminate(): stops a live thread; its 'exit' event follows.
Terminate(th) == IF th \in {"started", "running", "finished", "crashed"}
                 THEN "exiting" ELSE th

InitPoolVars ==
    /\ workers = {}
    /\ activeTasksQueue = <<>>
    /\ currentWorkerCount = 0
    /\ nextTaskId = 1
    /\ progressListeners = <<>>
    /\ errorListeners = <<>>
    /\ promise = [t \in TaskIds |-> "none"]
    /\ thread = [t \in TaskIds |-> "none"]
    /\ inbox = [t \in TaskIds |-> <<>>]
    /\ uncaught = 0
    /\ startOrder = <<>>
    /\ cancelledTasks = {}
    /\ shutdownCall = [pc |-> "none", by |-> "none"]

\* The manager's scheduling state as a record, so that the private methods
\* compose as the code calls them.
PoolState(q, w, c, th, so) == [q |-> q, w |-> w, c |-> c, th |-> th, so |-> so]

CurrentPool == PoolState(activeTasksQueue, workers, currentWorkerCount,
                         thread, startOrder)

\* A plausible slip in processQueue: the capacity test is dropped.
ProcessQueueNoCapacityTest(s) ==
    IF Len(s.q) = 0
    THEN s
    ELSE PoolState(Tail(s.q), s.w \cup {Head(s.q)}, s.c + 1,
                   [s.th EXCEPT ![Head(s.q)] = "started"],
                   Append(s.so, Head(s.q)))

\* processQueue taking the task queued last (pop) instead of the one queued
\* first (shift).
ProcessQueueTakesLast(s) ==
    IF Len(s.q) = 0 \/ s.c >= maxWorkers
    THEN s
    ELSE PoolState(SubSeq(s.q, 1, Len(s.q) - 1), s.w \cup {s.q[Len(s.q)]},
                   s.c + 1, [s.th EXCEPT ![s.q[Len(s.q)]] = "started"],
                   Append(s.so, s.q[Len(s.q)]))

\* startWorker(task): lines 107-114 (the handlers it registers are the
\* actions ManagerOnMessage, ManagerOnError, ManagerOnExit).
StartWorker(s, task) ==
    PoolState(s.q, s.w \cup {task}, s.c + 1,
              [s.th EXCEPT ![task] = "started"], Append(s.so, task))

\* processQueue(): starts at most one task per call.
ProcessQueue(s) ==
    IF Len(s.q) = 0 \/ s.c >= maxWorkers
    THEN s
    ELSE StartWorker([s EXCEPT !.q = Tail(s.q)], Head(s.q))

\* queueTask(task)
QueueTask(s, task) == ProcessQueue([s EXCEPT !.q = Append(s.q, task)])

\* cleanupWorker(taskId)
CleanupWorker(s, taskId) ==
    IF taskId \in s.w
    THEN [s EXCEPT !.th[taskId] = Terminate(s.th[taskId]),
                   !.w = s.w \ {taskId},
                   !.c = s.c - 1]
    ELSE s

SetPool(s) ==
    /\ activeTasksQueue' = s.q
    /\ workers' = s.w
    /\ currentWorkerCount' = s.c
    /\ thread' = s.th
    /\ startOrder' = s.so

\* The listener onProgress of task l, run for the message data. It calls
\* this.removeListeners(), which the manager does not define (removeListeners
\* is a local const of the promise executor), so on a terminal status of its
\* own task it throws a TypeError before resolve/reject.
OnProgressThrows(l, data) == data.taskId = l /\ data.status \in TerminalStatus

\* emit('workerProgress', data) runs the listeners in order; the first
\* exception leaves emit and the handler that called it.
EmitWorkerProgressThrows(data) ==
    \E j \in 1..Len(progressListeners) :
        OnProgressThrows(progressListeners[j], data)

\* The listener onError calls this.removeListeners() first: it throws
\* whatever the error is.  emit('workerError', e) throws iff a listener exists.
EmitWorkerErrorThrows == Len(errorListeners) > 0

\* The task whose onError runs when 'workerError' is emitted: the event
\* carries the Error alone, every task's onError listens to it (line 82),
\* and the listeners run in the order they were added; the first one throws,
\* so it is the only one to run.
ErrorListenerRun == Head(errorListeners)

\* processFileInBackground(filePath, outputPath, password, operation)
ProcessFileInBackground ==
    /\ nextTaskId <= MaxTasks
    /\ LET t == nextTaskId IN
        /\ nextTaskId' = t + 1
        /\ promise' = [promise EXCEPT ![t] = "pending"]
        /\ progressListeners' = Append(progressListeners, t)
        /\ errorListeners' = Append(errorListeners, t)
        /\ SetPool(QueueTask(CurrentPool, t))
    /\ UNCHANGED <<inbox, uncaught, cancelledTasks>>
    /\ UNCHANGED <<shutdownCall, nonPoolVars>>

\* The worker script (encryptionWorkerManager.ts:263-305) posts the initial
\* 'processing' message, then, after the engine call, 'completed' or 'error'.
WorkerPostMessage(t, status) ==
    /\ \/ thread[t] = "started" /\ status = "processing"
       \/ thread[t] = "running" /\ status \in TerminalStatus
    /\ inbox' = [inbox EXCEPT ![t] = Append(@, [taskId |-> t, status |-> status])]
    /\ thread' = [thread EXCEPT ![t] = IF status = "processing" THEN "running"
                                       ELSE "finished"]
    /\ UNCHANGED <<workers, activeTasksQueue, currentWorkerCount, nextTaskId,
                   progressListeners, errorListeners, promise, uncaught,
                   startOrder, cancelledTasks>>
    /\ UNCHANGED <<shutdownCall, nonPoolVars>>

\* An uncaught exception inside the worker thread (script load failure, out
\* of memory): the Worker object emits 'error', then 'exit'.
WorkerCrash(t) ==
    /\ thread[t] \in {"started", "running"}
    /\ thread' = [thread EXCEPT ![t] = "crashed"]
    /\ UNCHANGED <<workers, activeTasksQueue, currentWorkerCount, nextTaskId,
                   progressListeners, errorListeners, promise, inbox, uncaught,
                   startOrder, cancelledTasks>>
    /\ UNCHANGED <<shutdownCall, nonPoolVars>>

\* worker.on('message', ...) : lines 116-123
ManagerOnMessage(t) ==
    /\ inbox[t] # <<>>
    /\ thread[t] # "exited"
    /\ LET data == Head(inbox[t]) IN
        /\ inbox' = [inbox EXCEPT ![t] = Tail(@)]
        /\ IF EmitWorkerProgressThrows(data)
           THEN /\ uncaught' = uncaught + 1
                /\ UNCHANGED <<workers, activeTasksQueue, currentWorkerCount,
                               thread, startOrder>>
           ELSE /\ UNCHANGED uncaught
                /\ IF data.status \in TerminalStatus
                   THEN SetPool(ProcessQueue(CleanupWorker(CurrentPool, t)))
                   ELSE UNCHANGED <<workers, activeTasksQueue,
                                    currentWorkerCount, thread, startOrder>>
    /\ UNCHANGED <<nextTaskId, progressListeners, errorListeners, promise,
                   cancelledTasks>>
    /\ UNCHANGED <<shutdownCall, nonPoolVars>>

\* worker.on('error', ...) : lines 125-129
ManagerOnError(t) ==
    /\ thread[t] = "crashed"
    /\ IF EmitWorkerErrorThrows
       THEN /\ uncaught' = uncaught + 1
            /\ thread' = [thread EXCEPT ![t] = "exiting"]
            /\ UNCHANGED <<workers, activeTasksQueue, currentWorkerCount,
                           startOrder>>
       ELSE /\ UNCHANGED uncaught
            /\ SetPool(ProcessQueue(CleanupWorker(
                   [CurrentPool EXCEPT !.th[t] = "exiting"], t)))
    /\ UNCHANGED <<nextTaskId, progressListeners, errorListeners, promise,
                   inbox, cancelledTasks>>
    /\ UNCHANGED <<shutdownCall, nonPoolVars>>

\* worker.on('exit', ...) : lines 131-137.  code is 1 after terminate() or a
\* crash, 0 when the thread ends by itself.
ManagerOnExit(t, code) ==
    /\ \/ thread[t] = "exiting" /\ code = 1
       \/ thread[t] = "finished" /\ code = 0
    /\ inbox' = [inbox EXCEPT ![t] = <<>>]
    /\ IF code # 0 /\ EmitWorkerErrorThrows
       THEN /\ uncaught' = uncaught + 1
            /\ thread' = [thread EXCEPT ![t] = "exited"]
            /\ UNCHANGED <<workers, activeTasksQueue, currentWorkerCount,
                           startOrder>>
       ELSE /\ UNCHANGED uncaught
            /\ SetPool(ProcessQueue(CleanupWorker(
                   [CurrentPool EXCEPT !.th[t] = "exited"], t)))
    /\ UNCHANGED <<nextTaskId, progressListeners, errorListeners, promise,
                   cancelledTasks>>
    /\ UNCHANGED <<shutdownCall, nonPoolVars>>

\* cancelTask emptying the queue instead of filtering the one id out of it.
CancelTaskClearsQueue(t) ==
    /\ t < nextTaskId
    /\ t \in workers \/ \E j \in 1..Len(activeTasksQueue) : activeTasksQueue[j] = t
    /\ LET s == CleanupWorker(CurrentPool, t) IN
        SetPool([s EXCEPT !.q = <<>>])
    /\ cancelledTasks' = cancelledTasks \cup {t}
    /\ UNCHANGED <<nextTaskId, progressListeners, errorListeners, promise,
                   inbox, uncaught>>
    /\ UNCHANGED <<shutdownCall, nonPoolVars>>

\* cancelTask(taskId) : lines 149-160
CancelTask(t) ==
    /\ t < nextTaskId
    /\ t \in workers \/ \E j \in 1..Len(activeTasksQueue) : activeTasksQueue[j] = t
    /\ LET s == CleanupWorker(CurrentPool, t) IN
        SetPool([s EXCEPT !.q = SelectSeq(s.q, LAMBDA x : x # t)])
    /\ cancelledTasks' = cancelledTasks \cup {t}
    /\ UNCHANGED <<nextTaskId, progressListeners, errorListeners, promise,
                   inbox, uncaught>>
    /\ UNCHANGED <<shutdownCall, nonPoolVars>>

\* cancelAllTasks without the assignment of line 170: the queue is kept.
CancelAllTasksKeepsQueue ==
    /\ workers # {} \/ activeTasksQueue # <<>>
    /\ SetPool(PoolState(activeTasksQueue, {},
                         currentWorkerCount - Cardinality(workers),
                         [t \in TaskIds |-> IF t \in workers
                                            THEN Terminate(thread[t])
                                            ELSE thread[t]],
                         startOrder))
    /\ cancelledTasks' = cancelledTasks \cup workers
                         \cup {activeTasksQueue[j] : j \in 1..Len(activeTasksQueue)}
    /\ UNCHANGED <<nextTaskId, progressListeners, errorListeners, promise,
                   inbox, uncaught>>
    /\ UNCHANGED <<shutdownCall, nonPoolVars>>

\* cancelAllTasks() : lines 162-171
CancelAllTasks ==
    /\ workers # {} \/ activeTasksQueue # <<>>
    /\ SetPool(PoolState(<<>>, {}, currentWorkerCount - Cardinality(workers),
                         [t \in TaskIds |-> IF t \in workers
                                            THEN Terminate(thread[t])
                                            ELSE thread[t]],
                         startOrder))
    /\ cancelledTasks' = cancelledTasks \cup workers
                         \cup {activeTasksQueue[j] : j \in 1..Len(activeTasksQueue)}
    /\ UNCHANGED <<nextTaskId, progressListeners, errorListeners, promise,
                   inbox, uncaught>>
    /\ UNCHANGED <<shutdownCall, nonPoolVars>>

\* What cancelAllTasks leaves, lines 162-171: every worker of the map gets
\* the cancel message and is cleaned up, and the queue is emptied.
AllCancelled ==
    PoolState(<<>>, {}, currentWorkerCount - Cardinality(workers),
              [t \in TaskIds |-> IF t \in workers THEN Terminate(thread[t])
                                 ELSE thread[t]],
              startOrder)

\* shutdown(), lines 216-239: with no active worker it resolves at once;
\* otherwise it sets the 30 s timer and starts polling.
Shutdown ==
    /\ shutdownCall.pc = "none"
    /\ shutdownCall' = IF currentWorkerCount = 0
                       THEN [pc |-> "resolved", by |-> "no active worker"]
                       ELSE [pc |-> "waiting", by |-> "none"]
    /\ UNCHANGED <<workers, activeTasksQueue, currentWorkerCount, nextTaskId,
                   progressListeners, errorListeners, promise, thread, inbox,
                   uncaught, startOrder, cancelledTasks>>
    /\ UNCHANGED nonPoolVars

\* checkCompletion, lines 230-237, at a poll that finds the count at 0: the
\* timer is cleared and shutdown resolves.  (A poll that finds it above 0
\* only schedules the next poll.)
ShutdownPoll ==
    /\ shutdownCall.pc = "waiting"
    /\ currentWorkerCount = 0
    /\ shutdownCall' = [pc |-> "resolved", by |-> "poll"]
    /\ UNCHANGED <<workers, activeTasksQueue, currentWorkerCount, nextTaskId,
                   progressListeners, errorListeners, promise, thread, inbox,
                   uncaught, startOrder, cancelledTasks>>
    /\ UNCHANGED nonPoolVars

\* The 30 s timer fires, lines 224-227: cancelAllTasks(), then resolve.
ShutdownTimeout ==
    /\ shutdownCall.pc = "waiting"
    /\ shutdownCall' = [pc |-> "resolved", by |-> "timeout"]
    /\ SetPool(AllCancelled)
    /\ cancelledTasks' = cancelledTasks \cup workers
                         \cup {activeTasksQueue[j] : j \in 1..Len(activeTasksQueue)}
    /\ UNCHANGED <<nextTaskId, progressListeners, errorListeners, promise,
                   inbox, uncaught>>
    /\ UNCHANGED nonPoolVars

\* The pool with its shutdown.
NextShutdown ==
    \/ ProcessFileInBackground
    \/ \E t \in TaskIds, st \in WorkerStatus : WorkerPostMessage(t, st)
    \/ \E t \in TaskIds : WorkerCrash(t)
    \/ \E t \in TaskIds : ManagerOnMessage(t)
    \/ \E t \in TaskIds : ManagerOnError(t)
    \/ \E t \in TaskIds, code \in {0, 1} : ManagerOnExit(t, code)
    \/ \E t \in TaskIds : CancelTask(t)
    \/ CancelAllTasks
    \/ Shutdown
    \/ ShutdownPoll
    \/ ShutdownTimeout

NextPool ==
    \/ ProcessFileInBackground
    \/ \E t \in TaskIds, st \in WorkerStatus : WorkerPostMessage(t, st)
    \/ \E t \in TaskIds : WorkerCrash(t)
    \/ \E t \in TaskIds : ManagerOnMessage(t)
    \/ \E t \in TaskIds : ManagerOnError(t)
    \/ \E t \in TaskIds, code \in {0, 1} : ManagerOnExit(t, code)
    \/ \E t \in TaskIds : CancelTask(t)
    \/ CancelAllTasks

-----------------------------------------------------------------------------
(***************************************************************************)
(* Bytes, keys and the cipher                                              *)
(*                                                                         *)
(* File contents are sequences of elements of one record shape.  Random    *)
(* bytes, ciphertext bytes and tag bytes are symbolic: two of them are     *)
(* equal only if they were made from the same inputs (no collisions), and  *)
(* AES-GCM is its counter-mode stream plus a tag over the ciphertext.      *)
(***************************************************************************)

\* The sizes of the envelope, scaled down (the program's are 32, 16 and 16
\* bytes; every offset below is derived from them as the program derives its
\* 48 and size - 16 from them).
\* crypto.randomBytes(32), line 17
SaltLength == 2

\* crypto.randomBytes(16), line 18
IvLength == 2

\* the GCM tag, Buffer.alloc(16), line 113
TagLength == 2

\* Skip salt+iv (48 bytes), line 127
HeaderLength == SaltLength + IvLength

\* Largest plaintext explored.
MaxPlainLen == 5

\* Number of distinct outcomes of the random generator explored.
NumRandoms == 2

\* Number of distinct passwords explored.
NumPasswords == 2

\* Bytes a read stream hands over per 'data' event (Node's highWaterMark,
\* scaled down).
HighWaterMark == 2

Passwords == 1..NumPasswords

Randoms == 1..NumRandoms

NoKey == [pw |-> 0, salt |-> <<>>]

Elem(k, v, i, key, iv, of) ==
    [k |-> k, v |-> v, i |-> i, key |-> key, iv |-> iv, of |-> of]

\* An ordinary byte of value b.
Byte(b) == Elem("byte", b, 0, NoKey, <<>>, <<>>)

\* crypto.randomBytes(n), as the part from..from+n-1 of random draw r.
RandomBytes(r, from, n) ==
    [j \in 1..n |-> Elem("rnd", r, from + j - 1, NoKey, <<>>, <<>>)]

\* Buffer.alloc(n): n zero bytes.
BufferAlloc(n) == [j \in 1..n |-> Byte(0)]

\* crypto.pbkdf2Sync(password, salt, 100000, 32, 'sha256')
Pbkdf2(password, salt) == [pw |-> password, salt |-> salt]

\* One byte of cipher.update: the byte x at stream position pos.
CipherByte(key, iv, pos, x) == Elem("ct", 0, pos, key, iv, <<x>>)

\* One byte of decipher.update: the counter-mode stream undoes CipherByte of
\* the same key, iv and position, and yields an unrelated byte otherwise.
DecipherByte(key, iv, pos, c) ==
    IF c.k = "ct" /\ c.key = key /\ c.iv = iv /\ c.i = pos
    THEN c.of[1]
    ELSE Elem("junk", 0, pos, key, iv, <<c>>)

\* cipher.update(chunk) with the cipher at stream position pos (0-based).
CipherUpdate(key, iv, pos, chunk) ==
    [j \in 1..Len(chunk) |-> CipherByte(key, iv, pos + j - 1, chunk[j])]

\* decipher.update(chunk)
DecipherUpdate(key, iv, pos, chunk) ==
    [j \in 1..Len(chunk) |-> DecipherByte(key, iv, pos + j - 1, chunk[j])]

\* cipher.getAuthTag(): the tag over all ciphertext of this cipher.
AuthTag(key, iv, ct) ==
    [j \in 1..TagLength |-> Elem("tag", 0, j, key, iv, ct)]

Min(a, b) == IF a < b THEN a ELSE b

Max(a, b) == IF a > b THEN a ELSE b

\* Bytes from..to (0-based, inclusive) of data, cut to what the file holds.
Slice(data, from, to) ==
    IF from > Min(to, Len(data) - 1) THEN <<>>
    ELSE SubSeq(data, from + 1, Min(to, Len(data) - 1) + 1)

\* fs.readSync(fd, buffer, 0, length, position) into a zero-filled buffer of
\* that length: a short read leaves zeros; a negative position reads at the
\* descriptor's own position, which is 0 for a descriptor just opened.
ReadSync(data, length, position) ==
    LET at == IF position < 0 THEN 0 ELSE position
        got == Slice(data, at, at + length - 1)
    IN  got \o BufferAlloc(length - Len(got))

\* stream.write(chunk) on a write stream: after end() the chunk is refused
\* (ERR_STREAM_WRITE_AFTER_END) and the file keeps its content.
StreamWrite(ended, content, chunk) ==
    IF ended THEN content ELSE content \o chunk

Paths == {"plain", "enc", "dec"}

NoFile == [exists |-> FALSE, data |-> <<>>]

File(data) == [exists |-> TRUE, data |-> data]

\* A plaintext of n bytes.
PlainFile(n) == [j \in 1..n |-> Byte(j % 3)]

PlainLengths == {0, 1, TagLength, TagLength + 1, MaxPlainLen}

\* What encryptFile returned or threw, what decryptFile returned or threw.
Results == {"none", "ok", "ENOENT", "ERR_OUT_OF_RANGE", "AuthenticationError"}

EncIdle ==
    [pc |-> "idle", password |-> 0, r |-> 0, key |-> NoKey, salt |-> <<>>,
     iv |-> <<>>, total |-> 0, processed |-> 0, reported |-> <<>>,
     ct |-> <<>>, outEnded |-> FALSE, plain |-> <<>>, result |-> "none"]

DecIdle ==
    [pc |-> "idle", password |-> 0, key |-> NoKey, iv |-> <<>>,
     authTag |-> <<>>, total |-> 0, processed |-> 0, reported |-> <<>>,
     pos |-> 0, ct |-> <<>>, verified |-> FALSE, source |-> "none",
     result |-> "none"]

InitEngineVars ==
    /\ files = [p \in Paths |-> NoFile]
    /\ enc = EncIdle
    /\ dec = DecIdle

\* encryptFile(inputPath, outputPath, password, onProgress), lines 16-32:
\* the synchronous part.  createWriteStream creates (or truncates) the
\* output; statSync throws when the input does not exist.
EncryptFileStart(inputPath, outputPath, password, r) ==
    /\ enc.pc = "idle"
    /\ dec.pc \in {"idle", "done", "failed"}
    /\ LET salt == RandomBytes(r, 1, SaltLength)
           iv == RandomBytes(r, SaltLength + 1, IvLength)
           key == Pbkdf2(password, salt)
       IN IF ~files[inputPath].exists
          THEN /\ files' = [files EXCEPT ![outputPath] = File(<<>>)]
               /\ enc' = [EncIdle EXCEPT !.pc = "failed", !.password = password,
                                         !.r = r, !.key = key, !.salt = salt,
                                         !.iv = iv, !.result = "ENOENT"]
          ELSE /\ files' = [files EXCEPT ![outputPath] =
                     File(StreamWrite(FALSE, StreamWrite(FALSE, <<>>, salt), iv))]
               /\ enc' = [EncIdle EXCEPT !.pc = "piping", !.password = password,
                                         !.r = r, !.key = key, !.salt = salt,
                                         !.iv = iv,
                                         !.total = Len(files[inputPath].data),
                                         !.plain = files[inputPath].data]
    /\ UNCHANGED dec
    /\ UNCHANGED <<poolVars, storeVars, batchVars>>

\* One 'data' event of the input stream, lines 26-29 and the pipeline of
\* line 34: the progress is reported, the chunk goes through the cipher and
\* its ciphertext to the output stream.
EncryptFileData(inputPath, outputPath) ==
    /\ enc.pc = "piping"
    /\ enc.processed < Len(files[inputPath].data)
    /\ LET chunk == Slice(files[inputPath].data, enc.processed,
                          enc.processed + HighWaterMark - 1)
           out == CipherUpdate(enc.key, enc.iv, enc.processed, chunk)
       IN /\ enc' = [enc EXCEPT !.processed = @ + Len(chunk),
                                !.reported = Append(@, <<enc.processed + Len(chunk), enc.total>>),
                                !.ct = @ \o out]
          /\ files' = [files EXCEPT ![outputPath].data =
                          StreamWrite(enc.outEnded, @, out)]
    /\ UNCHANGED dec
    /\ UNCHANGED <<poolVars, storeVars, batchVars>>

\* The pipeline of line 34 completes: it has ended the output stream.  Then
\* lines 35-36 take the tag and write it to the stream that has ended.
EncryptFileEnd(inputPath, outputPath) ==
    /\ enc.pc = "piping"
    /\ enc.processed >= Len(files[inputPath].data)
    /\ LET authTag == AuthTag(enc.key, enc.iv, enc.ct)
       IN /\ files' = [files EXCEPT ![outputPath].data = StreamWrite(TRUE, @, authTag)]
          /\ enc' = [enc EXCEPT !.pc = "done", !.outEnded = TRUE, !.result = "ok"]
    /\ UNCHANGED dec
    /\ UNCHANGED <<poolVars, storeVars, batchVars>>

\* decryptFile(inputPath, outputPath, password, onProgress), lines 104-129:
\* the synchronous part.  The output is created before the input is opened;
\* the ranged read stream refuses start > end and a negative end.
DecryptFileStart(inputPath, outputPath, password) ==
    /\ dec.pc = "idle"
    /\ enc.pc \in {"idle", "done", "failed"}
    /\ files' = [files EXCEPT ![outputPath] = File(<<>>)]
    /\ LET data == files[inputPath].data
           size == Len(data)
           salt == ReadSync(data, SaltLength, 0)
           iv == ReadSync(data, IvLength, SaltLength)
           key == Pbkdf2(password, salt)
           authTag == ReadSync(data, TagLength, size - TagLength)
           start == HeaderLength
           end == size - TagLength - 1
           src == IF enc.pc = "done" /\ inputPath = "enc" THEN "encryptFile" ELSE "other"
       IN IF ~files[inputPath].exists
          THEN dec' = [DecIdle EXCEPT !.pc = "failed", !.password = password,
                                      !.source = src, !.result = "ENOENT"]
          ELSE IF end < 0 \/ start > end
          THEN dec' = [DecIdle EXCEPT !.pc = "failed", !.password = password,
                                      !.key = key, !.iv = iv, !.authTag = authTag,
                                      !.total = size, !.source = src,
                                      !.result = "ERR_OUT_OF_RANGE"]
          ELSE dec' = [DecIdle EXCEPT !.pc = "piping", !.password = password,
                                      !.key = key, !.iv = iv, !.authTag = authTag,
                                      !.total = size, !.source = src]
    /\ UNCHANGED enc
    /\ UNCHANGED <<poolVars, storeVars, batchVars>>

\* One chunk of the ranged stream through the pipeline of line 130: the
\* decipher hands on the plaintext of the chunk and the output stream
\* writes it.
DecryptFileData(inputPath, outputPath) ==
    /\ dec.pc = "piping"
    /\ HeaderLength + dec.pos <= dec.total - TagLength - 1
    /\ LET chunk == Slice(files[inputPath].data, HeaderLength + dec.pos,
                          Min(HeaderLength + dec.pos + HighWaterMark - 1,
                              dec.total - TagLength - 1))
           out == DecipherUpdate(dec.key, dec.iv, dec.pos, chunk)
       IN /\ Len(chunk) > 0
          /\ dec' = [dec EXCEPT !.pos = @ + Len(chunk), !.ct = @ \o chunk]
          /\ files' = [files EXCEPT ![outputPath].data = StreamWrite(FALSE, @, out)]
    /\ UNCHANGED enc
    /\ UNCHANGED <<poolVars, storeVars, batchVars>>

\* The ranged stream ends: decipher.final() compares the tag set by
\* setAuthTag with the tag of the ciphertext it was given.
DecryptFileEnd(inputPath, outputPath) ==
    /\ dec.pc = "piping"
    /\ \/ HeaderLength + dec.pos > dec.total - TagLength - 1
       \/ Slice(files[inputPath].data, HeaderLength + dec.pos,
                dec.total - TagLength - 1) = <<>>
    /\ IF dec.authTag = AuthTag(dec.key, dec.iv, dec.ct)
       THEN dec' = [dec EXCEPT !.pc = "done", !.verified = TRUE, !.result = "ok"]
       ELSE dec' = [dec EXCEPT !.pc = "failed", !.result = "AuthenticationError"]
    /\ UNCHANGED <<files, enc>>
    /\ UNCHANGED <<poolVars, storeVars, batchVars>>

\* One 'data' event of the stream `input` of line 105, lines 121-124.  It
\* reads the whole file by itself, whatever the pipeline does.
DecryptFileProgress(inputPath) ==
    /\ dec.pc # "idle"
    /\ dec.result # "ENOENT"
    /\ dec.processed < Len(files[inputPath].data)
    /\ LET chunk == Slice(files[inputPath].data, dec.processed,
                          dec.processed + HighWaterMark - 1)
       IN dec' = [dec EXCEPT !.processed = @ + Len(chunk),
                             !.reported = Append(@, <<dec.processed + Len(chunk), dec.total>>)]
    /\ UNCHANGED <<files, enc>>
    /\ UNCHANGED <<poolVars, storeVars, batchVars>>

NextEngine ==
    \/ \E pw \in Passwords, r \in Randoms : EncryptFileStart("plain", "enc", pw, r)
    \/ EncryptFileData("plain", "enc")
    \/ EncryptFileEnd("plain", "enc")
    \/ \E pw \in Passwords : DecryptFileStart("enc", "dec", pw)
    \/ DecryptFileData("enc", "dec")
    \/ DecryptFileEnd("enc", "dec")
    \/ DecryptFileProgress("enc")

-----------------------------------------------------------------------------
(***************************************************************************)
(* Checkpoint store: ResumableOperation                                    *)
(***************************************************************************)

\* Stream chunks per checkpoint interval (80 in the program: 5 MiB / 64 KiB).
ChunksPerCheckpoint == 2

\* checkpointInterval = 5 * 1024 * 1024 (line 122), scaled down with
\* HighWaterMark: as in the program it is a multiple of the stream's chunk.
CheckpointInterval == ChunksPerCheckpoint * HighWaterMark

\* daysSinceCheckpoint > 7, line 279
MaxAgeDays == 7

\* Days of clock explored.
MaxClock == 8

\* encryptPassword(password): the SHA-256 hex digest.
EncryptPassword(password) == <<"sha256", password>>

\* verifyPassword(password, storedHash)
VerifyPassword(password, storedHash) == EncryptPassword(password) = storedHash

NoCheckpoint ==
    [exists |-> FALSE, operation |-> "none", inputPath |-> "plain",
     outputPath |-> "enc", password |-> <<"sha256", 0>>, progress |-> <<0, 0>>,
     bytesProcessed |-> 0, totalBytes |-> 0, chunkSize |-> 0, timestamp |-> 0,
     salt |-> <<>>, iv |-> <<>>, hasTempDataPath |-> FALSE]

ResIdle ==
    [pc |-> "idle", password |-> 0, key |-> NoKey, iv |-> <<>>,
     processed |-> 0, total |-> 0, cipherPos |-> 0, ct |-> <<>>,
     reported |-> <<>>, startedAt |-> 0, reason |-> "none", saved |-> 0,
     canResume |-> FALSE, facts |-> <<>>, operation |-> "none",
     authTag |-> <<>>]

InitStoreVars ==
    /\ checkpoint = NoCheckpoint
    /\ temp = NoFile
    /\ clock = 0
    /\ res = ResIdle

\* saveCheckpoint recording the bytes that remain instead of the bytes done.
SaveCheckpointRemaining(operation, inputPath, outputPath, password, progress, bytesProcessed, totalBytes, salt, iv) ==
    << [exists |-> TRUE, operation |-> operation, inputPath |-> inputPath,
        outputPath |-> outputPath, password |-> EncryptPassword(password),
        progress |-> progress, bytesProcessed |-> totalBytes - bytesProcessed,
        totalBytes |-> totalBytes, chunkSize |-> CheckpointInterval,
        timestamp |-> clock, salt |-> salt, iv |-> iv,
        hasTempDataPath |-> bytesProcessed > 0],
       IF bytesProcessed > 0 /\ files[outputPath].exists
       THEN File(files[outputPath].data) ELSE temp >>

\* The state saveCheckpoint leaves, lines 140-182, as <<checkpoint, temp>>.
\* The copy of the output is taken only when bytesProcessed > 0 and the
\* output exists.
SaveCheckpoint(operation, inputPath, outputPath, password, progress, bytesProcessed, totalBytes, salt, iv) ==
    << [exists |-> TRUE, operation |-> operation, inputPath |-> inputPath,
        outputPath |-> outputPath, password |-> EncryptPassword(password),
        progress |-> progress, bytesProcessed |-> bytesProcessed,
        totalBytes |-> totalBytes, chunkSize |-> CheckpointInterval,
        timestamp |-> clock, salt |-> salt, iv |-> iv,
        hasTempDataPath |-> bytesProcessed > 0],
       IF bytesProcessed > 0 /\ files[outputPath].exists
       THEN File(files[outputPath].data) ELSE temp >>

\* canResumeOperation swapped two of its checks: the age test before the
\* temporary-data test.
CanResumeOperationAgeFirst(password) ==
    IF ~checkpoint.exists
    THEN [canResume |-> FALSE, reason |-> "Checkpoint not found"]
    ELSE IF ~VerifyPassword(password, checkpoint.password)
    THEN [canResume |-> FALSE, reason |-> "Invalid password"]
    ELSE IF ~files[checkpoint.inputPath].exists
    THEN [canResume |-> FALSE, reason |-> "Input file no longer exists"]
    ELSE IF Len(files[checkpoint.inputPath].data) # checkpoint.totalBytes
    THEN [canResume |-> FALSE, reason |-> "Input file has been modified"]
    ELSE IF clock - checkpoint.timestamp > MaxAgeDays
    THEN [canResume |-> FALSE, reason |-> "Checkpoint is too old (>7 days)"]
    ELSE IF checkpoint.hasTempDataPath /\ ~temp.exists
    THEN [canResume |-> FALSE, reason |-> "Temporary data lost"]
    ELSE [canResume |-> TRUE, reason |-> "none"]

\* canResumeOperation(operationId, password), lines 246-284
CanResumeOperation(password) ==
    IF ~checkpoint.exists
    THEN [canResume |-> FALSE, reason |-> "Checkpoint not found"]
    ELSE IF ~VerifyPassword(password, checkpoint.password)
    THEN [canResume |-> FALSE, reason |-> "Invalid password"]
    ELSE IF ~files[checkpoint.inputPath].exists
    THEN [canResume |-> FALSE, reason |-> "Input file no longer exists"]
    ELSE IF Len(files[checkpoint.inputPath].data) # checkpoint.totalBytes
    THEN [canResume |-> FALSE, reason |-> "Input file has been modified"]
    ELSE IF checkpoint.hasTempDataPath /\ ~temp.exists
    THEN [canResume |-> FALSE, reason |-> "Temporary data lost"]
    ELSE IF clock - checkpoint.timestamp > MaxAgeDays
    THEN [canResume |-> FALSE, reason |-> "Checkpoint is too old (>7 days)"]
    ELSE [canResume |-> TRUE, reason |-> "none"]

\* What holds of the store for a password, check by check, in the numbering
\* of the specification: 1 checkpoint exists, 2 password verifier matches,
\* 3 input exists, 4 input size equals totalBytes, 5 age at most 7 days,
\* 6 temp snapshot exists when bytesProcessed > 0.
Facts(password) ==
    << checkpoint.exists,
       checkpoint.password = <<"sha256", password>>,
       files[checkpoint.inputPath].exists,
       Len(files[checkpoint.inputPath].data) = checkpoint.totalBytes,
       clock - checkpoint.timestamp <= MaxAgeDays,
       checkpoint.bytesProcessed > 0 => temp.exists >>

\* A caller asks whether the operation can be resumed.
CanResumeCall(password) ==
    /\ res.pc = "idle"
    /\ res' = [ResIdle EXCEPT !.pc = "answered", !.password = password,
                   !.canResume = CanResumeOperation(password).canResume,
                   !.reason = CanResumeOperation(password).reason,
                   !.facts = Facts(password)]
    /\ UNCHANGED <<checkpoint, temp, clock>>
    /\ UNCHANGED <<poolVars, engineVars, batchVars>>

\* A caller of encryptFile records a checkpoint of the running encryption
\* with the run's salt and iv (saveCheckpoint, lines 140-182).
CheckpointEncryption(inputPath, outputPath) ==
    /\ enc.pc = "piping"
    /\ res.pc = "idle"
    /\ LET saved == SaveCheckpoint("encrypt", inputPath, outputPath, enc.password,
                                   <<enc.processed, enc.total>>, enc.processed,
                                   enc.total, enc.salt, enc.iv)
       IN /\ checkpoint' = saved[1]
          /\ temp' = saved[2]
          /\ checkpoint' # checkpoint
    /\ UNCHANGED <<clock, res>>
    /\ UNCHANGED <<poolVars, engineVars, batchVars>>

\* The running encryption is interrupted (the process is stopped): what the
\* output stream wrote so far stays on disk.
EncryptFileInterrupted ==
    /\ enc.pc = "piping"
    /\ enc' = [enc EXCEPT !.pc = "interrupted"]
    /\ UNCHANGED <<files, dec>>
    /\ UNCHANGED <<poolVars, storeVars, batchVars>>

\* The streams and the cipher resumeOperation sets up once the checks have
\* passed.  resumeEncryption, lines 291-301: the input is read from
\* bytesProcessed on, the output is opened for appending, the cipher is
\* created anew from the stored salt and iv.  resumeDecryption, lines
\* 354-379: the decipher is created anew, the tag is read from the end of
\* the input, the input is read from HeaderLength + bytesProcessed up to the
\* tag (the ranged read stream refuses start > end and a negative end, before
\* the output is opened), the output is opened for appending.
ResumeStreams(password) ==
    IF checkpoint.operation = "encrypt"
    THEN /\ res' = [ResIdle EXCEPT !.pc = "piping", !.password = password,
                       !.operation = "encrypt",
                       !.canResume = TRUE, !.facts = Facts(password),
                       !.key = Pbkdf2(password, checkpoint.salt),
                       !.iv = checkpoint.iv,
                       !.processed = checkpoint.bytesProcessed,
                       !.startedAt = checkpoint.bytesProcessed,
                       !.total = checkpoint.totalBytes]
         /\ files' = [files EXCEPT ![checkpoint.outputPath] =
                         File(files[checkpoint.outputPath].data)]
    ELSE LET data == files[checkpoint.inputPath].data
             size == Len(data)
             authTag == ReadSync(data, TagLength, size - TagLength)
             dataEndPos == size - TagLength
             remainingStart == HeaderLength + checkpoint.bytesProcessed
             call == [ResIdle EXCEPT !.password = password,
                         !.operation = "decrypt",
                         !.canResume = TRUE, !.facts = Facts(password),
                         !.key = Pbkdf2(password, checkpoint.salt),
                         !.iv = checkpoint.iv,
                         !.authTag = authTag,
                         !.processed = checkpoint.bytesProcessed,
                         !.startedAt = checkpoint.bytesProcessed,
                         !.total = checkpoint.totalBytes]
         IN IF dataEndPos - 1 < 0 \/ remainingStart > dataEndPos - 1
            THEN /\ res' = [call EXCEPT !.pc = "failed",
                                        !.reason = "ERR_OUT_OF_RANGE"]
                 /\ UNCHANGED files
            ELSE /\ res' = [call EXCEPT !.pc = "piping"]
                 /\ files' = [files EXCEPT ![checkpoint.outputPath] =
                                 File(files[checkpoint.outputPath].data)]

\* resumeOperation removing the checkpoint and the temp file when
\* canResumeOperation refuses (a cleanup on the failure path).
ResumeOperationStartCleansUp(password) ==
    /\ res.pc = "idle"
    /\ enc.pc # "piping"
    /\ dec.pc # "piping"
    /\ IF ~checkpoint.exists
       THEN /\ res' = [ResIdle EXCEPT !.pc = "rejected", !.password = password,
                                      !.facts = Facts(password),
                                      !.reason = "Checkpoint not found"]
            /\ UNCHANGED <<files, checkpoint, temp>>
       ELSE IF ~VerifyPassword(password, checkpoint.password)
       THEN /\ res' = [ResIdle EXCEPT !.pc = "rejected", !.password = password,
                          !.facts = Facts(password),
                          !.reason = "Invalid password for resuming operation"]
            /\ UNCHANGED <<files, checkpoint, temp>>
       ELSE IF ~CanResumeOperation(password).canResume
       THEN /\ res' = [ResIdle EXCEPT !.pc = "rejected", !.password = password,
                          !.facts = Facts(password),
                          !.reason = CanResumeOperation(password).reason]
            /\ checkpoint' = NoCheckpoint
            /\ temp' = NoFile
            /\ UNCHANGED files
       ELSE ResumeStreams(password)
            /\ UNCHANGED <<checkpoint, temp>>
    /\ UNCHANGED clock
    /\ UNCHANGED <<poolVars, enc, dec, batchVars>>

\* resumeOperation(operationId, password, onProgress), lines 214-236, up to
\* the streams of resumeEncryption, lines 291-301: the input is read from
\* bytesProcessed on, the output is opened for appending, and the cipher is
\* created anew from the stored salt and iv.
ResumeOperationStart(password) ==
    /\ res.pc = "idle"
    /\ enc.pc # "piping"
    /\ dec.pc # "piping"
    /\ IF ~checkpoint.exists
       THEN /\ res' = [ResIdle EXCEPT !.pc = "rejected", !.password = password,
                                      !.facts = Facts(password),
                                      !.reason = "Checkpoint not found"]
            /\ UNCHANGED files
       ELSE IF ~VerifyPassword(password, checkpoint.password)
       THEN /\ res' = [ResIdle EXCEPT !.pc = "rejected", !.password = password,
                          !.facts = Facts(password),
                          !.reason = "Invalid password for resuming operation"]
            /\ UNCHANGED files
       ELSE IF ~CanResumeOperation(password).canResume
       THEN /\ res' = [ResIdle EXCEPT !.pc = "rejected", !.password = password,
                          !.facts = Facts(password),
                          !.reason = CanResumeOperation(password).reason]
            /\ UNCHANGED files
       ELSE ResumeStreams(password)
    /\ UNCHANGED <<checkpoint, temp, clock>>
    /\ UNCHANGED <<poolVars, enc, dec, batchVars>>

\* One 'data' event of resumeEncryption's input stream, lines 303-329, and
\* the pipe of line 332: progress, the periodic saveCheckpoint, then the
\* chunk through the new cipher to the end of the output.
ResumeEncryptionData ==
    /\ res.pc = "piping"
    /\ res.operation = "encrypt"
    /\ res.processed < Len(files[checkpoint.inputPath].data)
    /\ LET chunk == Slice(files[checkpoint.inputPath].data, res.processed,
                          res.processed + HighWaterMark - 1)
           processed == res.processed + Len(chunk)
           out == CipherUpdate(res.key, res.iv, res.cipherPos, chunk)
           saved == SaveCheckpoint(checkpoint.operation, checkpoint.inputPath,
                                   checkpoint.outputPath, res.password,
                                   <<processed, res.total>>, processed,
                                   res.total, checkpoint.salt, checkpoint.iv)
           save == processed % CheckpointInterval = 0
       IN /\ res' = [res EXCEPT !.processed = processed,
                                !.cipherPos = @ + Len(chunk),
                                !.ct = @ \o out,
                                !.reported = Append(@, <<processed, res.total>>),
                                !.saved = IF save THEN @ + 1 ELSE @]
          /\ checkpoint' = IF save THEN saved[1] ELSE checkpoint
          /\ temp' = IF save THEN saved[2] ELSE temp
          /\ files' = [files EXCEPT ![checkpoint.outputPath].data = @ \o out]
    /\ UNCHANGED clock
    /\ UNCHANGED <<poolVars, enc, dec, batchVars>>

\* The output stream finishes, lines 334-341: the tag of the new cipher is
\* appended; then resumeOperation removes the checkpoint and the temp file
\* (cleanupCheckpoint, lines 402-415).
ResumeEncryptionEnd ==
    /\ res.pc = "piping"
    /\ res.operation = "encrypt"
    /\ res.processed >= Len(files[checkpoint.inputPath].data)
    /\ files' = [files EXCEPT ![checkpoint.outputPath].data =
                    @ \o AuthTag(res.key, res.iv, res.ct)]
    /\ res' = [res EXCEPT !.pc = "done"]
    /\ checkpoint' = NoCheckpoint
    /\ temp' = NoFile
    /\ UNCHANGED clock
    /\ UNCHANGED <<poolVars, enc, dec, batchVars>>

\* One chunk of resumeDecryption's ranged input stream, lines 383-393:
\* progress, then the chunk through the new decipher to the end of the output.
ResumeDecryptionData ==
    /\ res.pc = "piping"
    /\ res.operation = "decrypt"
    /\ LET data == files[checkpoint.inputPath].data
           last == Len(data) - TagLength - 1
           from == HeaderLength + res.processed
           chunk == Slice(data, from, Min(from + HighWaterMark - 1, last))
           processed == res.processed + Len(chunk)
           out == DecipherUpdate(res.key, res.iv, res.cipherPos, chunk)
       IN /\ from <= last
          /\ Len(chunk) > 0
          /\ res' = [res EXCEPT !.processed = processed,
                                !.cipherPos = @ + Len(chunk),
                                !.ct = @ \o chunk,
                                !.reported = Append(@, <<processed, res.total - HeaderLength>>)]
          /\ files' = [files EXCEPT ![checkpoint.outputPath].data = @ \o out]
    /\ UNCHANGED <<checkpoint, temp, clock>>
    /\ UNCHANGED <<poolVars, enc, dec, batchVars>>

\* The ranged stream ends: decipher.final() compares the tag that was set
\* with the tag of the ciphertext this decipher was given.  On a match the
\* output finishes and resumeOperation removes the checkpoint and the temp
\* file (lines 395, 239); otherwise the decipher's 'error' rejects (line 398)
\* and resumeOperation rethrows (lines 240-243).
ResumeDecryptionEnd ==
    /\ res.pc = "piping"
    /\ res.operation = "decrypt"
    /\ HeaderLength + res.processed > Len(files[checkpoint.inputPath].data) - TagLength - 1
    /\ IF res.authTag = AuthTag(res.key, res.iv, res.ct)
       THEN /\ res' = [res EXCEPT !.pc = "done"]
            /\ checkpoint' = NoCheckpoint
            /\ temp' = NoFile
       ELSE /\ res' = [res EXCEPT !.pc = "failed", !.reason = "AuthenticationError"]
            /\ UNCHANGED <<checkpoint, temp>>
    /\ UNCHANGED <<files, clock>>
    /\ UNCHANGED <<poolVars, enc, dec, batchVars>>

\* resumeOperation clearing the checkpoint when the resumed run fails.
ResumeStreamErrorCleansUp ==
    /\ res.pc = "piping"
    /\ res' = [res EXCEPT !.pc = "failed", !.reason = "IOError"]
    /\ checkpoint' = NoCheckpoint
    /\ temp' = NoFile
    /\ UNCHANGED <<files, clock>>
    /\ UNCHANGED <<poolVars, enc, dec, batchVars>>

\* One of the streams of the resumed run emits 'error' (a read or write
\* fails): the promise rejects, lines 343-345 and 396-398, and
\* resumeOperation rethrows, lines 240-243.
ResumeStreamError ==
    /\ res.pc = "piping"
    /\ res' = [res EXCEPT !.pc = "failed", !.reason = "IOError"]
    /\ UNCHANGED <<files, checkpoint, temp, clock>>
    /\ UNCHANGED <<poolVars, enc, dec, batchVars>>

\* A caller of decryptFile records a checkpoint of the running decryption:
\* the bytes of ciphertext done, the size of the input, and the salt and iv
\* of the input's header (saveCheckpoint, lines 140-182).
CheckpointDecryption(inputPath, outputPath) ==
    /\ dec.pc = "piping"
    /\ res.pc = "idle"
    /\ LET saved == SaveCheckpoint("decrypt", inputPath, outputPath, dec.password,
                                   <<dec.pos, dec.total>>, dec.pos,
                                   dec.total, dec.key.salt, dec.iv)
       IN /\ checkpoint' = saved[1]
          /\ temp' = saved[2]
          /\ checkpoint' # checkpoint
    /\ UNCHANGED <<clock, res>>
    /\ UNCHANGED <<poolVars, engineVars, batchVars>>

\* The running decryption is interrupted (the process is stopped): what the
\* output stream wrote so far stays on disk.
DecryptFileInterrupted ==
    /\ dec.pc = "piping"
    /\ dec' = [dec EXCEPT !.pc = "interrupted"]
    /\ UNCHANGED <<files, enc>>
    /\ UNCHANGED <<poolVars, storeVars, batchVars>>

\* The caller is done with the outcome of resumeOperation or
\* canResumeOperation and may call again.  After a failed resumed encryption
\* further attempts are explored while the output is no longer than a
\* complete one (every attempt appends to it).
ResumeOperationReturn ==
    /\ \/ res.pc \in {"rejected", "done", "answered"}
       \/ /\ res.pc = "failed"
          /\ res.operation = "encrypt"
          /\ Len(files[checkpoint.outputPath].data) <= HeaderLength + MaxPlainLen
    /\ res' = ResIdle
    /\ UNCHANGED <<checkpoint, temp, clock>>
    /\ UNCHANGED <<poolVars, engineVars, batchVars>>

\* A day passes.
Tick ==
    /\ clock < MaxClock
    /\ checkpoint.exists
    /\ enc.pc # "piping"
    /\ dec.pc = "idle"
    /\ res.pc = "idle"
    /\ clock' = clock + 1
    /\ UNCHANGED <<checkpoint, temp, res>>
    /\ UNCHANGED <<poolVars, engineVars, batchVars>>

\* Something else changes the input file: a byte is appended.
InputModified(inputPath) ==
    /\ enc.pc # "piping"
    /\ dec.pc = "idle"
    /\ res.pc = "idle"
    /\ files[inputPath].exists
    /\ Len(files[inputPath].data) <= MaxPlainLen
    /\ Len(files[inputPath].data) = enc.total
    /\ files' = [files EXCEPT ![inputPath].data = Append(@, Byte(1))]
    /\ UNCHANGED <<enc, dec>>
    /\ UNCHANGED <<poolVars, storeVars, batchVars>>

\* Something else removes the input file.
InputDeleted(inputPath) ==
    /\ enc.pc # "piping"
    /\ dec.pc = "idle"
    /\ res.pc = "idle"
    /\ files[inputPath].exists
    /\ files' = [files EXCEPT ![inputPath] = NoFile]
    /\ UNCHANGED <<enc, dec>>
    /\ UNCHANGED <<poolVars, storeVars, batchVars>>

\* Something else empties the temp directory.
TempDeleted ==
    /\ res.pc = "idle"
    /\ temp.exists
    /\ temp' = NoFile
    /\ UNCHANGED <<checkpoint, clock, res>>
    /\ UNCHANGED <<poolVars, engineVars, batchVars>>

\* A decryption of the encrypted file begins while no checkpoint is stored
\* and before any time has passed.
DecryptionBegins(password) ==
    /\ ~checkpoint.exists
    /\ res.pc = "idle"
    /\ clock = 0
    /\ DecryptFileStart("enc", "dec", password)

NextStore ==
    \/ \E pw \in Passwords : EncryptFileStart("plain", "enc", pw, 1)
    \/ EncryptFileData("plain", "enc")
    \/ EncryptFileEnd("plain", "enc")
    \/ EncryptFileInterrupted
    \/ CheckpointEncryption("plain", "enc")
    \/ \E pw \in Passwords : CanResumeCall(pw)
    \/ \E pw \in Passwords : ResumeOperationStart(pw)
    \/ ResumeEncryptionData
    \/ ResumeEncryptionEnd
    \/ ResumeOperationReturn
    \/ ResumeStreamError
    \/ \E pw \in Passwords : DecryptionBegins(pw)
    \/ DecryptFileData("enc", "dec")
    \/ DecryptFileEnd("enc", "dec")
    \/ CheckpointDecryption("enc", "dec")
    \/ DecryptFileInterrupted
    \/ ResumeDecryptionData
    \/ ResumeDecryptionEnd
    \/ Tick
    \/ InputModified("plain")
    \/ InputDeleted("plain")
    \/ TempDeleted

-----------------------------------------------------------------------------
(***************************************************************************)
(* Overlapping resumeOperation calls on one ResumableOperation             *)
(***************************************************************************)

\* The resumeOperation calls that run at the same time, for one operation id.
Calls == {1, 2}

\* No resumeOperation call.  checkpoint is the object line 214 loaded: the
\* call works on this copy, whatever becomes of the stored record.
CallIdle ==
    [pc |-> "idle", password |-> 0, checkpoint |-> NoCheckpoint, key |-> NoKey,
     processed |-> 0, cipherPos |-> 0, ct |-> <<>>, reason |-> "none"]

\* resumeOperation(operationId, password) of call c, lines 214-233, for a
\* checkpoint of an encryption: the three checks, then resumeEncryption up to
\* its promise, lines 291-301 (the output is opened for appending, the cipher
\* is created anew).  Nothing in these lines tells whether another call is
\* at work on the same id.
OverlappingResumeOperation(c, password) ==
    /\ resumes[c].pc = "idle"
    /\ enc.pc # "piping"
    /\ checkpoint.exists => checkpoint.operation = "encrypt"
    /\ IF ~checkpoint.exists
       THEN /\ resumes' = [resumes EXCEPT ![c] =
                   [CallIdle EXCEPT !.pc = "rejected", !.password = password,
                                    !.reason = "Checkpoint not found"]]
            /\ UNCHANGED files
       ELSE IF ~VerifyPassword(password, checkpoint.password)
       THEN /\ resumes' = [resumes EXCEPT ![c] =
                   [CallIdle EXCEPT !.pc = "rejected", !.password = password,
                        !.reason = "Invalid password for resuming operation"]]
            /\ UNCHANGED files
       ELSE IF ~CanResumeOperation(password).canResume
       THEN /\ resumes' = [resumes EXCEPT ![c] =
                   [CallIdle EXCEPT !.pc = "rejected", !.password = password,
                        !.reason = CanResumeOperation(password).reason]]
            /\ UNCHANGED files
       ELSE /\ resumes' = [resumes EXCEPT ![c] =
                   [CallIdle EXCEPT !.pc = "piping", !.password = password,
                        !.checkpoint = checkpoint,
                        !.key = Pbkdf2(password, checkpoint.salt),
                        !.processed = checkpoint.bytesProcessed]]
            /\ files' = [files EXCEPT ![checkpoint.outputPath] =
                            File(files[checkpoint.outputPath].data)]
    /\ UNCHANGED <<checkpoint, temp, clock, res, enc, dec>>
    /\ UNCHANGED <<poolVars, processorVars, download>>

\* One 'data' event of the input stream of call c, lines 303-329, and the
\* pipe of line 332: the periodic saveCheckpoint, then the chunk through the
\* call's cipher to the end of the output file.
OverlappingResumeEncryptionData(c) ==
    LET call == resumes[c]
        loaded == call.checkpoint
        input == files[loaded.inputPath].data
        chunk == Slice(input, call.processed, call.processed + HighWaterMark - 1)
        processed == call.processed + Len(chunk)
        out == CipherUpdate(call.key, loaded.iv, call.cipherPos, chunk)
        saved == SaveCheckpoint(loaded.operation, loaded.inputPath,
                                loaded.outputPath, call.password,
                                <<processed, loaded.totalBytes>>, processed,
                                loaded.totalBytes, loaded.salt, loaded.iv)
        save == processed % CheckpointInterval = 0
    IN  /\ call.pc = "piping"
        /\ call.processed < Len(input)
        /\ resumes' = [resumes EXCEPT ![c].processed = processed,
                                      ![c].cipherPos = @ + Len(chunk),
                                      ![c].ct = @ \o out]
        /\ checkpoint' = IF save THEN saved[1] ELSE checkpoint
        /\ temp' = IF save THEN saved[2] ELSE temp
        /\ files' = [files EXCEPT ![loaded.outputPath].data = @ \o out]
        /\ UNCHANGED <<clock, res, enc, dec>>
        /\ UNCHANGED <<poolVars, processorVars, download>>

\* The output stream of call c finishes, lines 334-341: the tag of the call's
\* cipher is appended to the file; resumeOperation then removes the
\* checkpoint and the temp file (line 239).
OverlappingResumeEncryptionEnd(c) ==
    LET call == resumes[c]
        loaded == call.checkpoint
    IN  /\ call.pc = "piping"
        /\ call.processed >= Len(files[loaded.inputPath].data)
        /\ files' = [files EXCEPT ![loaded.outputPath].data =
                        @ \o AuthTag(call.key, loaded.iv, call.ct)]
        /\ resumes' = [resumes EXCEPT ![c].pc = "done"]
        /\ checkpoint' = NoCheckpoint
        /\ temp' = NoFile
        /\ UNCHANGED <<clock, res, enc, dec>>
        /\ UNCHANGED <<poolVars, processorVars, download>>

\* An encryption is interrupted with a checkpoint recorded, and callers
\* resume it, possibly at the same time.
NextOverlap ==
    \/ \E pw \in Passwords : EncryptFileStart("plain", "enc", pw, 1)
    \/ EncryptFileData("plain", "enc")
    \/ CheckpointEncryption("plain", "enc")
    \/ EncryptFileInterrupted
    \/ \E c \in Calls, pw \in Passwords : OverlappingResumeOperation(c, pw)
    \/ \E c \in Calls : OverlappingResumeEncryptionData(c)
    \/ \E c \in Calls : OverlappingResumeEncryptionEnd(c)

-----------------------------------------------------------------------------
(***************************************************************************)
(* Batch processor: BatchProcessor                                         *)
(***************************************************************************)

\* Largest batch explored.
MaxFiles == 2

\* Progress reports of one engine call at most: the fractions
\* 1/FractionSteps, 2/FractionSteps, ..., 1.
FractionSteps == 2

\* private maxRecentFiles = 20, fileHistory.ts line 22
maxRecentFiles == 20

OutPaths == 1..MaxFiles

Operations == {"encrypt", "decrypt"}

\* The BatchFileInfo[] arguments explored: entry k reads input k and writes
\* to one of the output paths (two entries may name the same one).
BatchFiles ==
    UNION {[1..n -> [inputPath : {0}, outputPath : OutPaths]] : n \in 0..MaxFiles}

\* BatchFileInfo k of the batch: inputPath and name stand for the k-th input.
BatchFileInfo(fs, k) ==
    [inputPath |-> k, name |-> k, outputPath |-> fs[k].outputPath]

\* A number of the program that is a quotient: <<numerator, denominator>>.
Ratio(n, d) == <<n, d>>

\* The progress object of lines 51-59.
NewProgress(total) ==
    [fileIndex |-> 0, fileName |-> 0, fileProgress |-> Ratio(0, 1),
     overallProgress |-> Ratio(0, 1), completed |-> 0, total |-> total,
     errors |-> <<>>]

\* The onProgress arguments explored: a callback that returns from every
\* call (0), and the callbacks that throw from their n-th call of the run and
\* return from the others.
ThrowAts == 0..(MaxFiles + 1)

\* afterLoop tells that the for loop was left, by its end or by break.
\* existingBefore is history: the output paths that existed when the run
\* began.
RunIdle ==
    [pc |-> "idle", files |-> <<>>, operation |-> "encrypt",
     overwriteExisting |-> FALSE, throwAt |-> 0, i |-> 0, fileFraction |-> 0,
     progress |-> NewProgress(0), afterLoop |-> FALSE, existingBefore |-> {}]

\* Input files one batchProcessWithDownload call is given at most.
MaxDownloadFiles == 2

\* A file name is the sequence of its parts: "x.txt.enc" is
\* <<"x", ".txt", ".enc">>.  Two names are equal iff their parts are.
Extensions == {".txt", ".enc"}

FileNames == {<<"x", ".txt">>, <<"x", ".txt", ".enc">>,
              <<"x", "_decrypted", ".txt", ".enc">>}

Directories == {"a", "b"}

\* An input path: a directory and a file name.
InputPaths == Directories \X FileNames

\* path.basename(inputPath)
Basename(inputPath) == inputPath[2]

\* suggestOutputFilename(inputPath, operation), lines 220-237
SuggestOutputFilename(inputPath, operation) ==
    LET fileName == Basename(inputPath)
        n == Len(fileName)
    IN  IF operation = "encrypt"
        THEN Append(fileName, ".enc")
        ELSE IF fileName[n] = ".enc"
        THEN SubSeq(fileName, 1, n - 1)
        ELSE IF n > 1 /\ fileName[n] \in Extensions
        THEN SubSeq(fileName, 1, n - 1) \o <<"_decrypted", fileName[n]>>
        ELSE fileName \o <<"_decrypted">>

\* The names the target directory can come to hold.
OutputNames ==
    {SuggestOutputFilename(p, op) : p \in InputPaths, op \in {"encrypt", "decrypt"}}

\* The files arguments explored: up to MaxDownloadFiles distinct input paths.
DownloadFiles ==
    {fs \in UNION {[1..n -> InputPaths] : n \in 0..MaxDownloadFiles} :
        \A i, j \in DOMAIN fs : i # j => fs[i] # fs[j]}

\* No batchProcessWithDownload call yet.  i is the loop index plus one;
\* written maps a name of the target directory to the index of the input
\* whose engine call created it last (0: no such file); succeeded is the
\* history of the indices whose engine call resolved.
DownloadIdle ==
    [pc |-> "idle", files |-> <<>>, operation |-> "none", directory |-> "none",
     i |-> 1, processedFiles |-> <<>>,
     written |-> [name \in OutputNames |-> 0], succeeded |-> {},
     dialog |-> FALSE, shownInFolder |-> FALSE, error |-> "none"]

InitBatchVars ==
    /\ isProcessing = FALSE
    /\ shouldCancel = FALSE
    /\ run = RunIdle
    /\ emitted = <<>>
    /\ engineCalls = <<>>
    /\ visits = <<>>
    /\ existing = {}
    /\ fileHistory = <<>>
    /\ secondCall = "none"
    /\ download = DownloadIdle
    /\ resumes = [c \in Calls |-> CallIdle]

\* The state a stretch of processFiles works on.
CurrentBatch ==
    [isProcessing |-> isProcessing, run |-> run, emitted |-> emitted,
     engineCalls |-> engineCalls, visits |-> visits, existing |-> existing,
     fileHistory |-> fileHistory]

SetBatch(m) ==
    /\ isProcessing' = m.isProcessing
    /\ run' = m.run
    /\ emitted' = m.emitted
    /\ engineCalls' = m.engineCalls
    /\ visits' = m.visits
    /\ existing' = m.existing
    /\ fileHistory' = m.fileHistory

\* Whether the next call of the callback throws: run.throwAt counts the
\* calls down to the one that does, and is 0 when none will.
Throws(m) == m.run.throwAt = 1

\* onProgress({ ...progress }): the callback gets a copy, and returns or
\* throws.
OnProgress(m) ==
    [m EXCEPT !.emitted = Append(@, m.run.progress),
              !.run.throwAt = IF @ > 0 THEN @ - 1 ELSE 0]

\* An exception of lines 72 or 96 leaving processFiles through the finally of
\* lines 97-99 without resetting isProcessing.
CallbackThrewNoFinally(m) == [m EXCEPT !.run.pc = "rejected"]

\* An exception of the callback called at line 72 or 96: no catch encloses
\* the call, the finally of lines 97-99 runs and the promise rejects.
CallbackThrew(m) == [m EXCEPT !.isProcessing = FALSE, !.run.pc = "rejected"]

\* FileHistoryManager.addToHistory, fileHistory.ts lines 41-67: an earlier
\* entry of the path is removed, the new one is put first, the list is cut to
\* maxRecentFiles.  It never throws.
AddToHistory(history, filePath) ==
    LET filtered == SelectSeq(history, LAMBDA f : f # filePath)
        unshifted == <<filePath>> \o filtered
    IN  SubSeq(unshifted, 1, Min(Len(unshifted), maxRecentFiles))

\* Lines 95-98: after the loop, by its end or by break.
Finish(m) ==
    LET m1 == [m EXCEPT !.run.progress.overallProgress = Ratio(100, 1),
                        !.run.afterLoop = TRUE]
    IN  IF Throws(m)
        THEN CallbackThrew(OnProgress(m1))
        ELSE [OnProgress(m1) EXCEPT !.isProcessing = FALSE, !.run.pc = "resolved"]

RECURSIVE Loop(_, _)

\* The catch of lines 87-92 leaving the loop instead of going on.
FileFailedAborts(m, message, cancel) ==
    Finish([m EXCEPT !.run.progress.errors =
                Append(@, <<"Failed to", m.run.operation,
                            BatchFileInfo(m.run.files, m.run.i + 1).name, message>>)])

\* The catch of lines 87-92, then the next turn of the loop.
FileFailed(m, message, cancel) ==
    Loop([m EXCEPT !.run.progress.errors =
                Append(@, <<"Failed to", m.run.operation,
                            BatchFileInfo(m.run.files, m.run.i + 1).name, message>>),
                   !.run.i = @ + 1],
         cancel)

\* Lines 85-86 after the awaited call resolved, then the next turn.
FileSucceeded(m, cancel) ==
    Loop([m EXCEPT !.run.progress.completed = @ + 1,
                   !.fileHistory = AddToHistory(@,
                        BatchFileInfo(m.run.files, m.run.i + 1).inputPath),
                   !.run.i = @ + 1],
         cancel)

\* processingleFile without the output-collision test of lines 108-110.
ProcessingleFileNoCollisionTest(m, cancel) ==
    [m EXCEPT !.run.pc = "engine",
              !.run.fileFraction = 0,
              !.engineCalls = Append(@, <<"start", m.run.i>>),
              !.existing = @ \cup {BatchFileInfo(m.run.files, m.run.i + 1).outputPath}]

\* processingleFile whose engine call is started and not awaited: the loop
\* goes on at once.
ProcessingleFileNoAwait(m, cancel) ==
    LET file == BatchFileInfo(m.run.files, m.run.i + 1)
    IN  IF ~m.run.overwriteExisting /\ file.outputPath \in m.existing
        THEN FileFailed(m, "Output file already exists", cancel)
        ELSE FileSucceeded([m EXCEPT !.engineCalls = Append(@, <<"start", m.run.i>>),
                                     !.existing = @ \cup {file.outputPath}],
                           cancel)

\* processingleFile, lines 102-123, up to the await of the engine call: the
\* output-collision test throws; otherwise the engine is called, and its
\* synchronous part creates the output file.
ProcessingleFile(m, cancel) ==
    LET file == BatchFileInfo(m.run.files, m.run.i + 1)
    IN  IF ~m.run.overwriteExisting /\ file.outputPath \in m.existing
        THEN FileFailed(m, "Output file already exists", cancel)
        ELSE [m EXCEPT !.run.pc = "engine",
                       !.run.fileFraction = 0,
                       !.engineCalls = Append(@, <<"start", m.run.i>>),
                       !.existing = @ \cup {file.outputPath}]

\* The for loop of lines 62-93 from its test on, up to the next await of an
\* engine call or to the end of processFiles.  cancel is this.shouldCancel.
Loop(m, cancel) ==
    LET K == Len(m.run.files)
        i == m.run.i
    IN  IF i >= K \/ cancel
        THEN Finish(m)
        ELSE IF Throws(m)
        THEN CallbackThrew(OnProgress([m EXCEPT
                 !.visits = Append(@, i),
                 !.run.progress.fileIndex = i,
                 !.run.progress.fileName = BatchFileInfo(m.run.files, i + 1).name,
                 !.run.progress.fileProgress = Ratio(0, 1),
                 !.run.progress.overallProgress = Ratio(i * 100, K)]))
        ELSE ProcessingleFile(
                 OnProgress([m EXCEPT
                     !.visits = Append(@, i),
                     !.run.progress.fileIndex = i,
                     !.run.progress.fileName = BatchFileInfo(m.run.files, i + 1).name,
                     !.run.progress.fileProgress = Ratio(0, 1),
                     !.run.progress.overallProgress = Ratio(i * 100, K)]),
                 cancel)

\* processFiles(files, options, onProgress), lines 44-59, and the loop up to
\* its first await.  One run of the processor is explored.
ProcessFiles(fs, operation, overwriteExisting, throwAt) ==
    /\ run.pc = "idle"
    /\ ~isProcessing
    /\ shouldCancel' = FALSE
    /\ SetBatch(Loop([CurrentBatch EXCEPT
                         !.isProcessing = TRUE,
                         !.run = [RunIdle EXCEPT !.pc = "loop", !.files = fs,
                                     !.operation = operation,
                                     !.overwriteExisting = overwriteExisting,
                                     !.throwAt = throwAt,
                                     !.progress = NewProgress(Len(fs)),
                                     !.existingBefore = existing],
                         !.emitted = <<>>,
                         !.engineCalls = <<>>,
                         !.visits = <<>>],
                     FALSE))
    /\ UNCHANGED secondCall
    /\ UNCHANGED <<poolVars, engineVars, storeVars, download, resumes>>

\* processFiles called while a run is in progress, lines 44-46.
ProcessFilesWhileProcessing ==
    /\ isProcessing
    /\ secondCall = "none"
    /\ secondCall' = "Batch processing is already in progress"
    /\ UNCHANGED <<isProcessing, shouldCancel, run, emitted, engineCalls, visits,
                   existing, fileHistory>>
    /\ UNCHANGED <<poolVars, engineVars, storeVars, download, resumes>>

\* The callback of lines 78-82 computing the overall progress from the count
\* of completed files instead of the loop index.
EngineProgressFromCompleted(f) ==
    /\ run.pc = "engine"
    /\ f = run.fileFraction + 1
    /\ LET K == Len(run.files)
       IN SetBatch(OnProgress([CurrentBatch EXCEPT
              !.run.fileFraction = f,
              !.run.progress.fileProgress = Ratio(f * 100, FractionSteps),
              !.run.progress.overallProgress =
                  Ratio((run.progress.completed * FractionSteps + f) * 100,
                        K * FractionSteps)]))
    /\ UNCHANGED <<shouldCancel, secondCall>>
    /\ UNCHANGED <<poolVars, engineVars, storeVars, download, resumes>>

\* The engine reports progress, fraction after fraction: the callback of
\* lines 78-82.  It is called by the engine's stream listener, not by
\* processFiles: an exception of onProgress leaves through that listener and
\* the run goes on waiting for the engine call.
EngineProgress(f) ==
    /\ run.pc = "engine"
    /\ f = run.fileFraction + 1
    /\ LET K == Len(run.files)
       IN SetBatch(OnProgress([CurrentBatch EXCEPT
              !.run.fileFraction = f,
              !.run.progress.fileProgress = Ratio(f * 100, FractionSteps),
              !.run.progress.overallProgress =
                  Ratio((run.i * FractionSteps + f) * 100, K * FractionSteps)]))
    /\ UNCHANGED <<shouldCancel, secondCall>>
    /\ UNCHANGED <<poolVars, engineVars, storeVars, download, resumes>>

\* The awaited engine call resolves and the loop goes on without the test of
\* shouldCancel of lines 63-65.
EngineResolvesNoCancelTest ==
    /\ run.pc = "engine"
    /\ SetBatch(FileSucceeded([CurrentBatch EXCEPT
                                  !.engineCalls = Append(@, <<"ok", run.i>>)],
                              FALSE))
    /\ UNCHANGED <<shouldCancel, secondCall>>
    /\ UNCHANGED <<poolVars, engineVars, storeVars, download, resumes>>

\* The awaited engine call resolves: lines 85-86 and the loop up to its next
\* await.
EngineResolves ==
    /\ run.pc = "engine"
    /\ SetBatch(FileSucceeded([CurrentBatch EXCEPT
                                  !.engineCalls = Append(@, <<"ok", run.i>>)],
                              shouldCancel))
    /\ UNCHANGED <<shouldCancel, secondCall>>
    /\ UNCHANGED <<poolVars, engineVars, storeVars, download, resumes>>

\* The awaited engine call rejects: lines 87-92 and the loop up to its next
\* await.
EngineRejects ==
    /\ run.pc = "engine"
    /\ SetBatch(FileFailed([CurrentBatch EXCEPT
                               !.engineCalls = Append(@, <<"fail", run.i>>)],
                           "engine error", shouldCancel))
    /\ UNCHANGED <<shouldCancel, secondCall>>
    /\ UNCHANGED <<poolVars, engineVars, storeVars, download, resumes>>

\* isCurrentlyProcessing(), lines 176-178
IsCurrentlyProcessing == isProcessing

\* cancel(), lines 172-174
Cancel ==
    /\ ~shouldCancel
    /\ shouldCancel' = TRUE
    /\ UNCHANGED <<isProcessing, run, emitted, engineCalls, visits, existing,
                   fileHistory, secondCall>>
    /\ UNCHANGED <<poolVars, engineVars, storeVars, download, resumes>>

\* Something else creates or removes a file at an output path before the
\* run.
OutputChanges(path) ==
    /\ run.pc = "idle"
    /\ existing' = IF path \in existing THEN existing \ {path}
                   ELSE existing \cup {path}
    /\ UNCHANGED <<isProcessing, shouldCancel, run, emitted, engineCalls, visits,
                   fileHistory, secondCall>>
    /\ UNCHANGED <<poolVars, engineVars, storeVars, download, resumes>>

NextBatch ==
    \/ /\ run.pc = "idle"
       /\ \E fs \in BatchFiles, op \in Operations, ow \in BOOLEAN,
             throwAt \in ThrowAts :
             ProcessFiles(fs, op, ow, throwAt)
    \/ ProcessFilesWhileProcessing
    \/ \E f \in 1..FractionSteps : EngineProgress(f)
    \/ EngineResolves
    \/ EngineRejects
    \/ Cancel
    \/ \E path \in OutPaths : OutputChanges(path)

-----------------------------------------------------------------------------
(***************************************************************************)
(* batchProcessWithDownload                                                *)
(***************************************************************************)

\* batchProcessWithDownload(files, operation, password, outputDirectory,
\* onProgress), lines 252-265: the target directory is the argument, or the
\* one the user chooses in the dialog; without either the call throws.
BatchProcessWithDownload(fs, operation, directory) ==
    /\ download.pc = "idle"
    /\ IF directory = "none"
       THEN download' = [download EXCEPT !.pc = "rejected",
                            !.error = "No output directory selected"]
       ELSE download' = [download EXCEPT !.pc = "loop", !.files = fs,
                            !.operation = operation, !.directory = directory]
    /\ UNCHANGED <<poolVars, engineVars, storeVars, processorVars, resumes>>

\* path.join(targetDirectory, suggestedName), lines 270-271, for the
\* index-th file: the target directory is the same for all, so the path is
\* the name.
DownloadOutputPath(index) ==
    SuggestOutputFilename(download.files[index], download.operation)

\* One turn of the loop, lines 268-299, whose engine call resolves: the
\* engine creates (or truncates) the output path and writes it, and the path
\* is pushed onto processedFiles.
DownloadFileProcessed ==
    /\ download.pc = "loop"
    /\ download.i <= Len(download.files)
    /\ LET outputPath == DownloadOutputPath(download.i)
       IN download' = [download EXCEPT
              !.written[outputPath] = download.i,
              !.processedFiles = Append(@, outputPath),
              !.succeeded = @ \cup {download.i},
              !.i = @ + 1]
    /\ UNCHANGED <<poolVars, engineVars, storeVars, processorVars, resumes>>

\* One turn of the loop whose engine call rejects, lines 300-304: the engine
\* created (or truncated) the output path before it failed; the error is
\* logged and the loop goes on.
DownloadFileFailed ==
    /\ download.pc = "loop"
    /\ download.i <= Len(download.files)
    /\ LET outputPath == DownloadOutputPath(download.i)
       IN download' = [download EXCEPT
              !.written[outputPath] = download.i,
              !.i = @ + 1]
    /\ UNCHANGED <<poolVars, engineVars, storeVars, processorVars, resumes>>

\* After the loop, lines 307-324: the completion dialog when a file was
\* processed, the folder shown when the user asks for it, and the return of
\* processedFiles.
DownloadReturns(response) ==
    /\ download.pc = "loop"
    /\ download.i > Len(download.files)
    /\ download' = [download EXCEPT
           !.pc = "returned",
           !.dialog = Len(download.processedFiles) > 0,
           !.shownInFolder = Len(download.processedFiles) > 0 /\ response = 1]
    /\ UNCHANGED <<poolVars, engineVars, storeVars, processorVars, resumes>>

NextDownload ==
    \/ \E fs \in DownloadFiles, op \in {"encrypt", "decrypt"},
          directory \in {"given", "chosen", "none"} :
          BatchProcessWithDownload(fs, op, directory)
    \/ DownloadFileProcessed
    \/ DownloadFileFailed
    \/ \E response \in {0, 1} : DownloadReturns(response)

-----------------------------------------------------------------------------
(***************************************************************************)
(* Specifications                                                          *)
(***************************************************************************)

InitPool == InitPoolVars /\ InitEngineVars /\ InitStoreVars /\ InitBatchVars

SpecPool == InitPool /\ [][NextPool]_vars

SpecShutdown == InitPool /\ [][NextShutdown]_vars

\* Scheduling the code can rely on: a live worker script runs on to its next
\* postMessage, the event loop delivers every posted message and every
\* 'error' event, and a terminated or crashed thread emits 'exit' (code 1).
\* Nothing makes a caller submit or cancel, and nothing ends a thread that
\* still listens on its parentPort (exit code 0).
FairSpecPool ==
    /\ SpecPool
    /\ \A t \in TaskIds :
        /\ WF_vars(\E st \in WorkerStatus : WorkerPostMessage(t, st))
        /\ WF_vars(ManagerOnMessage(t))
        /\ WF_vars(ManagerOnError(t))
        /\ WF_vars(ManagerOnExit(t, 1))


\* The engine starts with a plaintext file to work on, or with none at the
\* input path.
InitEngine ==
    /\ InitPoolVars
    /\ \E f \in {NoFile} \cup {File(PlainFile(n)) : n \in PlainLengths} :
          files = [p \in Paths |-> IF p = "plain" THEN f ELSE NoFile]
    /\ enc = EncIdle
    /\ dec = DecIdle
    /\ InitStoreVars
    /\ InitBatchVars

SpecEngine == InitEngine /\ [][NextEngine]_vars

SpecStore == InitEngine /\ [][NextStore]_vars

SpecBatch == InitPool /\ [][NextBatch]_vars

SpecDownload == InitPool /\ [][NextDownload]_vars

SpecOverlap == InitEngine /\ [][NextOverlap]_vars

\* The content of a file that is at an output path before the engine is
\* called.
OldOutput == File(PlainFile(1))

\* The engine is called with output paths at which a file exists already (as
\* processingleFile calls it with overwriteExisting, lines 108-122).
InitOverwrite ==
    /\ InitPoolVars
    /\ \E f \in {NoFile} \cup {File(PlainFile(n)) : n \in PlainLengths} :
          files = [p \in Paths |-> IF p = "plain" THEN f ELSE OldOutput]
    /\ enc = EncIdle
    /\ dec = DecIdle
    /\ InitStoreVars
    /\ InitBatchVars

SpecOverwrite == InitOverwrite /\ [][NextEngine]_vars

-----------------------------------------------------------------------------
(***************************************************************************)
(* Properties                                                              *)
(***************************************************************************)

LiveThreads == {t \in TaskIds : thread[t] \in {"started", "running", "finished", "crashed"}}

\* C1 (pool bound): the tasks holding a slot (the workers map, the slot
\* counter, the worker threads not yet terminated) never number more than
\* maxWorkers, however many tasks were submitted.
C1_PoolBound ==
    /\ Cardinality(workers) <= maxWorkers
    /\ currentWorkerCount <= maxWorkers
    /\ Cardinality(LiveThreads) <= maxWorkers

\* More tasks submitted than slots: all slots taken and a task waiting.
C1_Witness ==
    /\ nextTaskId - 1 > maxWorkers
    /\ Cardinality(workers) = maxWorkers
    /\ Len(activeTasksQueue) > 0

\* A task has reached a terminal point: its worker reported a terminal
\* status, crashed or exited, or the task was removed by a cancel.
TaskSettled(t) ==
    \/ thread[t] \in {"finished", "crashed", "exiting", "exited"}
    \/ t \in cancelledTasks

\* C2 (pool liveness): every submitted task is eventually started and reaches
\* a terminal status, or is removed by cancelTask / cancelAllTasks.
C2_PoolLiveness ==
    \A t \in TaskIds : (promise[t] = "pending") ~> TaskSettled(t)

\* C3 (round trip): decrypting the file encryptFile wrote, with the same
\* password, succeeds and yields the original plaintext.
C3_RoundTrip ==
    (/\ dec.pc \in {"done", "failed"}
     /\ dec.source = "encryptFile"
     /\ dec.password = enc.password)
    => (dec.result = "ok" /\ files["dec"].data = enc.plain)

\* C4 (wrong password): decrypting the file encryptFile wrote with another
\* password ends in an authentication error.
C4_WrongPassword ==
    (/\ dec.pc \in {"done", "failed"}
     /\ dec.source = "encryptFile"
     /\ dec.password # enc.password)
    => dec.result = "AuthenticationError"

\* C5 (verify before write): the output of decryptFile holds plaintext only
\* once the tag that covers it has been verified.
C5_VerifyBeforeWrite ==
    (dec.pc # "idle" /\ Len(files["dec"].data) > 0) => dec.verified

\* The output of an uninterrupted encryptFile run with the salt, iv and key
\* of the interrupted run: the header and the ciphertext of the whole
\* plaintext, then the tag over that ciphertext when withTag.
UninterruptedOutput(withTag) ==
    LET ct == CipherUpdate(enc.key, enc.iv, 0, enc.plain)
    IN  enc.salt \o enc.iv \o ct \o
        (IF withTag THEN AuthTag(enc.key, enc.iv, ct) ELSE <<>>)

\* C6 (resume equivalence): an encryption interrupted after N chunks with a
\* checkpoint of that point (the run's salt and iv), once resumed with the
\* correct password, leaves an output byte-identical to that of an
\* uninterrupted run with the same salt and iv (with the tag, or as
\* encryptFile leaves it, without).
C6_ResumeEquivalence ==
    (/\ res.pc = "done"
     /\ enc.pc = "interrupted"
     /\ res.startedAt = enc.processed)
    => files["enc"].data \in {UninterruptedOutput(TRUE), UninterruptedOutput(FALSE)}

\* The reason canResumeOperation gives for check n (numbering of Facts).
ReasonOf(n) ==
    CASE n = 1 -> "Checkpoint not found"
      [] n = 2 -> "Invalid password"
      [] n = 3 -> "Input file no longer exists"
      [] n = 4 -> "Input file has been modified"
      [] n = 5 -> "Checkpoint is too old (>7 days)"
      [] n = 6 -> "Temporary data lost"

\* The answer of a function that tests the six facts in the given order and
\* returns the reason of the first that does not hold.
FirstFailure(facts, order) ==
    LET failing == {k \in 1..6 : ~facts[order[k]]}
        first == CHOOSE k \in failing : \A j \in failing : k <= j
    IN  IF failing = {}
        THEN [canResume |-> TRUE, reason |-> "none"]
        ELSE [canResume |-> FALSE, reason |-> ReasonOf(order[first])]

\* A step in which a resumeOperation call is made.
ResumeCalled == res.pc = "idle" /\ res'.pc \in {"rejected", "piping"}

\* The call made in this step is rejected with the reason and has written
\* nothing.
RejectedWith(reason) ==
    /\ res'.pc = "rejected"
    /\ res'.reason = reason
    /\ UNCHANGED <<files, checkpoint, temp>>

FailedFiles ==
    {engineCalls[p][2] : p \in {q \in DOMAIN engineCalls : engineCalls[q][1] = "fail"}}
    \cup ({visits[p] : p \in DOMAIN visits}
          \ {engineCalls[p][2] : p \in {q \in DOMAIN engineCalls : engineCalls[q][1] = "start"}})

\* C9 (batch partial failure): a run over K files that was not cancelled, of
\* which M failed, has visited all K files in turn and ends with
\* completed = K - M and exactly M entries in the error list, which is what
\* its last progress report says.
C9_BatchPartialFailure ==
    (run.pc = "resolved" /\ ~shouldCancel) =>
        LET K == Len(run.files)
            M == Cardinality(FailedFiles)
        IN  /\ visits = [p \in 1..K |-> p - 1]
            /\ run.progress.completed = K - M
            /\ Len(run.progress.errors) = M
            /\ emitted[Len(emitted)].completed = K - M
            /\ Len(emitted[Len(emitted)].errors) = M
            /\ emitted[Len(emitted)].total = K

\* A full batch ended whose first file failed in the engine and in which a
\* later file succeeded.
C9_Witness ==
    /\ run.pc = "resolved"
    /\ ~shouldCancel
    /\ Len(run.files) = MaxFiles
    /\ \E p \in DOMAIN engineCalls : engineCalls[p] = <<"fail", 0>>
    /\ run.progress.completed >= 1

\* C10 (batch ordering): the loop reaches the files in input order; an engine
\* call starts only when the one before it has resolved or rejected, so that
\* at most one is in flight; the calls start in increasing index order.
C10_BatchOrdering ==
    /\ \A p \in DOMAIN visits : visits[p] = p - 1
    /\ \A p \in DOMAIN engineCalls :
          IF engineCalls[p][1] = "start"
          THEN p = 1 \/ engineCalls[p - 1][1] \in {"ok", "fail"}
          ELSE p > 1 /\ engineCalls[p - 1] = <<"start", engineCalls[p][2]>>
    /\ \A p, q \in DOMAIN engineCalls :
          (p < q /\ engineCalls[p][1] = "start" /\ engineCalls[q][1] = "start")
              => engineCalls[p][2] < engineCalls[q][2]

\* The engine call of the second file is in flight after that of the first
\* file has ended.
C10_Witness ==
    /\ run.pc = "engine"
    /\ run.i = 1
    /\ Len(engineCalls) = 3
    /\ engineCalls[1] = <<"start", 0>>
    /\ engineCalls[3] = <<"start", 1>>

\* The positions of emitted that were handed over while a file was being
\* processed: all but the report of lines 95-96 after the loop.
DuringFile ==
    {p \in DOMAIN emitted : ~(run.afterLoop /\ p = Len(emitted))}

\* overallProgress of report b is (done + current file fraction) / total, in
\* percent; fileProgress is that fraction in percent.
Aggregates(b, done) ==
    b.overallProgress[1] * b.fileProgress[2] * b.total
        = b.overallProgress[2] * (done * 100 * b.fileProgress[2] + b.fileProgress[1])

RunEnded == run.pc \in {"resolved", "rejected"}

\* The run was cut short by cancel(): the loop left files unvisited.
RunCancelled == Len(visits) < Len(run.files)

\* C12 (wholesale failure): a run that has ended failed as a whole (the
\* promise of processFiles rejected) exactly when cancel() cut it short; per
\* file errors never reject it.
C12_WholesaleFailure ==
    RunEnded => (run.pc = "rejected" <=> RunCancelled)

\* The indices of the run for which the engine was called.
Started ==
    {engineCalls[p][2] : p \in {q \in DOMAIN engineCalls : engineCalls[q][1] = "start"}}

\* The indices the loop has reached.
Visited == {visits[p] : p \in DOMAIN visits}

\* The entries handed to processingleFile: those the loop has reached, but
\* for the one at whose report of line 72 the callback threw.
Handed ==
    {i \in Visited :
        ~(run.pc = "rejected" /\ ~run.afterLoop /\ i = visits[Len(visits)])}

\* A file existed at the output path of entry i when the loop reached it:
\* it was there before the run, or an earlier engine call of the run created it.
ExistedAtVisit(i) ==
    \/ run.files[i + 1].outputPath \in run.existingBefore
    \/ \E j \in Started : j < i /\ run.files[j + 1].outputPath = run.files[i + 1].outputPath

\* The error list names entry i with the collision message.
CollisionReported(i) ==
    \E e \in DOMAIN run.progress.errors :
        run.progress.errors[e] =
            <<"Failed to", run.operation, i + 1, "Output file already exists">>

\* C13 (output collision): with overwriteExisting false, an entry whose output
\* path holds a file gets an error in the error list and no engine call, no
\* engine call of the run writes to that path from then on, the file stays,
\* and the loop goes on to the next entry; every other entry handed to
\* processingleFile gets its engine call (with overwriteExisting true, every
\* entry).
C13_OutputCollision ==
    \A i \in Handed :
        IF ~run.overwriteExisting /\ ExistedAtVisit(i)
        THEN /\ i \notin Started
             /\ CollisionReported(i)
             /\ \A k \in Started :
                    k >= i => run.files[k + 1].outputPath # run.files[i + 1].outputPath
             /\ run.files[i + 1].outputPath \in existing
             /\ i + 1 < Len(run.files) => i + 1 \in Visited
        ELSE i \in Started

\* The first entry of a batch collided with a file that was there before the
\* run, and the second entry went to the engine.
C13_Witness ==
    /\ ~run.overwriteExisting
    /\ Len(run.files) >= 2
    /\ run.files[1].outputPath \in run.existingBefore
    /\ 0 \in Visited /\ 0 \notin Started
    /\ 1 \in Started

\* Task t waits in the queue.
Queued(t) == \E j \in 1..Len(activeTasksQueue) : activeTasksQueue[j] = t

\* C14 (cancel of a queued task): a cancelTask step for a task that waits in
\* the queue takes exactly that task out of the queue and leaves the order of
\* the others, the active tasks, the active count and the threads as they
\* were; a task cancelled before it was started is never started and never
\* queued again.
C14_CancelQueued ==
    [][\A t \in TaskIds :
          /\ (/\ Queued(t)
              /\ t \notin cancelledTasks
              /\ cancelledTasks' = cancelledTasks \cup {t})
             => /\ activeTasksQueue' = SelectSeq(activeTasksQueue, LAMBDA x : x # t)
                /\ Len(activeTasksQueue') = Len(activeTasksQueue) - 1
                /\ workers' = workers
                /\ currentWorkerCount' = currentWorkerCount
                /\ thread' = thread
                /\ startOrder' = startOrder
          /\ (t \in cancelledTasks /\ thread[t] = "none")
             => /\ thread'[t] = "none"
                /\ t \notin workers'
                /\ \A j \in 1..Len(activeTasksQueue') : activeTasksQueue'[j] # t
                /\ \A j \in 1..Len(startOrder') : startOrder'[j] # t]_vars

\* A task was cancelled while it waited behind an active task and before
\* another queued task, which still waits.
C14_Witness ==
    /\ 2 \in cancelledTasks
    /\ thread[2] = "none"
    /\ workers = {1}
    /\ activeTasksQueue = <<3>>

\* C15 (cooperative cancellation): a cancel of a task whose worker is still
\* at work (it has reported no terminal status) leaves the worker running,
\* so that it can see the cancel message at its next progress report and
\* stop by itself; the manager does not terminate it in the step that
\* posts the message.
C15_CooperativeCancel ==
    [][\A t \in TaskIds :
          (/\ t \in workers
           /\ thread[t] \in {"started", "running"}
           /\ t \notin cancelledTasks
           /\ t \in cancelledTasks')
          => thread'[t] = thread[t]]_vars

\* C16 (shutdown): at the step in which shutdown() resolves no worker is
\* active, the active count is 0 and no task waits in the queue to be
\* started later.
C16_ShutdownDrains ==
    [][(shutdownCall.pc # "resolved" /\ shutdownCall'.pc = "resolved")
        => /\ workers' = {}
           /\ currentWorkerCount' = 0
           /\ activeTasksQueue' = <<>>]_vars

\* C17: when resumeOperation completes, the checkpoint record and its temp
\* snapshot are gone; when the resumed encryption or decryption fails, the
\* checkpoint record still exists and, the input being unchanged and the
\* record at most 7 days old, canResumeOperation accepts it with the same
\* password.
C17_CheckpointLifecycle ==
    /\ res.pc = "done" => ~checkpoint.exists /\ ~temp.exists
    /\ res.pc = "failed" =>
          /\ checkpoint.exists
          /\ (/\ Facts(res.password)[3]
              /\ Facts(res.password)[4]
              /\ Facts(res.password)[5])
             => CanResumeOperation(res.password).canResume

\* A resumed run that processed data and then failed on a stream error.
C17_Witness ==
    /\ res.pc = "failed"
    /\ res.reason = "IOError"
    /\ res.processed > res.startedAt

\* What a checkpoint must say for the partial output at outputPath to be
\* accounted for: it exists, names that output, and its bytesProcessed is
\* the number of payload bytes the output holds after the header.
Accounted(operation, outputPath, header) ==
    /\ checkpoint.exists
    /\ checkpoint.operation = operation
    /\ checkpoint.outputPath = outputPath
    /\ Len(files[outputPath].data) = header + checkpoint.bytesProcessed

\* C18: after an encryption or decryption was interrupted or failed after
\* it had begun to stream, and before any resume, either
\* no output file exists at its output path or a checkpoint exists whose
\* bytesProcessed says exactly how much of that output was written.
C18_NoTruncatedOutput ==
    /\ (enc.pc = "interrupted" /\ res.pc = "idle")
       => \/ ~files["enc"].exists
          \/ Accounted("encrypt", "enc", HeaderLength)
    /\ (/\ dec.pc = "interrupted" \/ (dec.pc = "failed" /\ dec.pos > 0)
        /\ res.pc = "idle")
       => \/ ~files["dec"].exists
          \/ Accounted("decrypt", "dec", 0)

\* C19: a file written by encryptFile begins with a 4-byte version, the salt,
\* the base nonce, a 4-byte chunk size and an 8-byte plaintext length, in
\* that order, and continues with one (ciphertext, tag) pair per chunk: the
\* salt and the nonce sit behind the version field, and the length of the
\* file is that of the header, the ciphertext and one tag per chunk.
C19_EnvelopeFormat ==
    enc.pc = "done" =>
        LET data == files["enc"].data
        IN /\ ReadSync(data, SaltLength, 4) = enc.salt
           /\ ReadSync(data, IvLength, 4 + SaltLength) = enc.iv
           /\ \E chunks \in 0..enc.total :
                 /\ enc.total > 0 => chunks > 0
                 /\ Len(data) = 4 + SaltLength + IvLength + 4 + 8
                                  + enc.total + chunks * TagLength

\* The 'error' or 'exit' event of task t's worker is handled: the manager
\* emits 'workerError' and the emit throws.
ErrorEventOf(t) ==
    /\ \/ thread[t] = "crashed" /\ thread'[t] = "exiting"
       \/ thread[t] = "exiting" /\ thread'[t] = "exited"
    /\ uncaught' = uncaught + 1

\* C20: the 'error' or 'exit' event of task A's worker is handled by A's own
\* listener, and the promise of every other task is left as it was.
C20_ErrorAttribution ==
    [][\A t \in TaskIds :
          ErrorEventOf(t)
          => /\ ErrorListenerRun = t
             /\ \A u \in TaskIds \ {t} : promise'[u] = promise[u]]_vars

\* C21: decryptFile on an existing input shorter than header plus tag fails
\* with a FormatError, and the output it leaves holds no plaintext.
C21_MalformedInput ==
    (/\ dec.pc # "idle"
     /\ dec.result # "ENOENT"
     /\ dec.total < HeaderLength + TagLength)
    => /\ dec.pc = "failed"
       /\ dec.result = "FormatError"
       /\ files["dec"].data = <<>>

\* C22: when batchProcessWithDownload has returned, no two of its input
\* files had the same output path, the output of every file that was
\* processed is still the one its own engine call wrote, and the returned
\* list holds one distinct path per processed file.
C22_FilenameConflicts ==
    download.pc = "returned" =>
        /\ \A i, j \in 1..Len(download.files) :
              i # j => DownloadOutputPath(i) # DownloadOutputPath(j)
        /\ \A i \in download.succeeded :
              download.written[DownloadOutputPath(i)] = i
        /\ Len(download.processedFiles) = Cardinality(download.succeeded)
        /\ \A i, j \in 1..Len(download.processedFiles) :
              i # j => download.processedFiles[i] # download.processedFiles[j]

\* The tasks startWorker ran for so far.
StartedTasks == {startOrder[k] : k \in 1..Len(startOrder)}

\* C23: tasks are started in the order they were submitted (task ids count
\* the submissions): a task never starts before one submitted earlier, and
\* when a task has started, every task submitted before it has started too
\* unless it was cancelled.
C23_FifoStartOrder ==
    /\ \A i, j \in 1..Len(startOrder) : i < j => startOrder[i] < startOrder[j]
    /\ \A b \in StartedTasks : \A a \in 1..(b - 1) :
          a \notin cancelledTasks => a \in StartedTasks

\* Every submitted task was started, the later ones out of the queue, and
\* none was cancelled.
C23_Witness ==
    /\ Len(startOrder) = MaxTasks
    /\ cancelledTasks = {}

\* C24: between the manager's operations and event handlers a free slot
\* never coexists with a waiting task: when the queue is not empty, exactly
\* maxWorkers tasks are active.
C24_WorkConserving ==
    activeTasksQueue # <<>> =>
        /\ currentWorkerCount = maxWorkers
        /\ Cardinality(workers) = maxWorkers

\* The way task t's run ended has been handled by the manager: its terminal
\* status message, or the 'exit' event of its worker.
EndHandled(t) ==
    \/ thread[t] = "finished" /\ inbox[t] = <<>>
    \/ thread[t] = "exited"

\* C25: the slot counter equals the size of the workers map and is never
\* negative, and once the end of a started task has been handled (terminal
\* status, worker error and exit, cancel) the task holds no slot.
C25_SlotAccounting ==
    /\ currentWorkerCount = Cardinality(workers)
    /\ currentWorkerCount >= 0
    /\ \A t \in TaskIds : EndHandled(t) => t \notin workers

\* C26: every snapshot written holds a bytesProcessed of at most its
\* totalBytes, and a snapshot that replaces one of the same operation holds a
\* bytesProcessed at least as large as the one it replaces.
C26_CheckpointProgress ==
    [][/\ checkpoint'.exists
          => checkpoint'.bytesProcessed <= checkpoint'.totalBytes
       /\ (/\ checkpoint.exists
           /\ checkpoint'.exists
           /\ checkpoint'.operation = checkpoint.operation)
          => checkpoint'.bytesProcessed >= checkpoint.bytesProcessed]_vars

\* A resumed run has replaced the snapshot it started from by a later one.
C26_Witness ==
    /\ res.saved > 0
    /\ checkpoint.exists
    /\ checkpoint.bytesProcessed > res.startedAt

\* The number of checkpoint intervals n bytes have completed.
IntervalsDone(n) == n \div CheckpointInterval

\* C27: whenever a chunk of a resumed operation takes the cumulative bytes
\* processed across a multiple of the checkpoint interval, a snapshot with
\* that count is written.
C27_SnapshotCadence ==
    [][(/\ res.pc = "piping"
        /\ res'.pc = "piping"
        /\ IntervalsDone(res'.processed) > IntervalsDone(res.processed))
       => /\ checkpoint'.exists
          /\ checkpoint'.bytesProcessed = res'.processed]_vars

\* C28: a resumed operation starts at an offset that is a multiple of the
\* checkpoint's chunkSize, and its cipher is at the position of the stream
\* its input is at, not at the start of the stream.
C28_ChunkGranularResume ==
    res.pc = "piping" =>
        /\ res.startedAt % checkpoint.chunkSize = 0
        /\ res.cipherPos = res.processed

\* The reports of a run, pairs <<processed, total>>, lie in [0, 1] and do
\* not decrease.
ReportsInRange(reported) ==
    /\ \A k \in 1..Len(reported) :
          reported[k][1] >= 0 /\ reported[k][1] <= reported[k][2]
    /\ \A k \in 1..(Len(reported) - 1) : reported[k][1] <= reported[k + 1][1]

\* No report <<processed, total>> is ahead of done bytes out of payload
\* bytes that went through the cipher: processed / total <= done / payload.
NotAhead(reported, done, payload) ==
    \A k \in 1..Len(reported) :
        reported[k][1] * payload <= done * reported[k][2]

\* C29: the values encryptFile and decryptFile pass to the progress callback
\* lie in [0, 1] and do not decrease, none is ahead of the share of the data
\* that went through the cipher, and no run that has failed reported 1.
C29_EngineProgress ==
    /\ ReportsInRange(enc.reported)
    /\ ReportsInRange(dec.reported)
    /\ NotAhead(enc.reported, Len(enc.ct), enc.total)
    /\ NotAhead(dec.reported, dec.pos, dec.total - HeaderLength - TagLength)
    /\ enc.pc = "failed"
          => \A k \in 1..Len(enc.reported) : enc.reported[k][1] < enc.reported[k][2]
    /\ dec.pc = "failed"
          => \A k \in 1..Len(dec.reported) : dec.reported[k][1] < dec.reported[k][2]

\* A processFiles run is in progress: the call was made and its promise is
\* not settled.
RunInProgress == run.pc \notin {"idle", "resolved", "rejected"}

\* C30: single batch at a time.  isCurrentlyProcessing() is true exactly while
\* a processFiles run is in progress, so it is false again after the run
\* ended normally, by cancel or by an exception of the progress callback; and
\* a processFiles call gets the answer "Batch processing is already in
\* progress" only while a run is in progress, and that call leaves the run,
\* the progress reported and the cancel flag as they were.
C30_SingleBatch ==
    /\ [](IsCurrentlyProcessing <=> RunInProgress)
    /\ [][secondCall' # secondCall =>
             /\ RunInProgress
             /\ secondCall' = "Batch processing is already in progress"
             /\ run' = run
             /\ emitted' = emitted
             /\ shouldCancel' = shouldCancel
             /\ IsCurrentlyProcessing']_vars

\* A second call was refused during a run that the callback's exception
\* ended after an engine call, and the processor is free again.
C30_Witness ==
    /\ secondCall = "Batch processing is already in progress"
    /\ run.pc = "rejected"
    /\ Len(engineCalls) > 0
    /\ ~IsCurrentlyProcessing

\* The engine call in flight has settled in this step.
EngineSettles == run.pc = "engine" /\ engineCalls' # engineCalls

\* C31: batch cancel is sampled only between files.  cancel() changes nothing
\* but the flag, so the engine call in flight goes on; when that call settles
\* after cancel(), its outcome is recorded as for any file (completed and the
\* history entry, or the error entry), no further file is reached or started
\* and the run ends; the error entries and the history entries recorded name
\* only files the loop reached, resp. files whose engine call resolved; and a
\* run starts with the flag cleared, whatever cancel() did before it.
C31_CancelBetweenFiles ==
    /\ [](/\ \A e \in DOMAIN run.progress.errors :
                 run.progress.errors[e][3] - 1 \in Visited
          /\ \A h \in DOMAIN fileHistory :
                 <<"ok", fileHistory[h] - 1>> \in
                     {engineCalls[p] : p \in DOMAIN engineCalls})
    /\ [][/\ (~shouldCancel /\ shouldCancel') =>
                (run' = run /\ engineCalls' = engineCalls /\ emitted' = emitted
                 /\ fileHistory' = fileHistory /\ isProcessing' = isProcessing)
          /\ (shouldCancel /\ run.pc = "engine") =>
                (visits' = visits /\ run'.i \in {run.i, run.i + 1})
          /\ (shouldCancel /\ EngineSettles) =>
                /\ run'.pc \in {"resolved", "rejected"}
                /\ \/ /\ engineCalls' = Append(engineCalls, <<"ok", run.i>>)
                      /\ run'.progress.completed = run.progress.completed + 1
                      /\ run'.progress.errors = run.progress.errors
                      /\ fileHistory' # <<>> /\ fileHistory'[1] = run.i + 1
                   \/ /\ engineCalls' = Append(engineCalls, <<"fail", run.i>>)
                      /\ run'.progress.completed = run.progress.completed
                      /\ Len(run'.progress.errors) = Len(run.progress.errors) + 1
                      /\ fileHistory' = fileHistory
          /\ (run.pc = "idle" /\ run'.pc # "idle") => ~shouldCancel'
          /\ (run.pc = "idle" /\ run'.pc = "engine") => visits' # <<>>]_vars

\* cancel() was called while the engine worked on the first file of a full
\* batch; that file succeeded and was recorded, and the run ended without
\* reaching the second.
C31_Witness ==
    /\ shouldCancel
    /\ run.pc = "resolved"
    /\ Len(run.files) = MaxFiles
    /\ visits = <<0>>
    /\ engineCalls = <<<<"start", 0>>, <<"ok", 0>>>>
    /\ run.progress.completed = 1
    /\ fileHistory = <<1>>

\* Call c has passed the checks of resumeOperation and its output stream is
\* open for appending.
Appending(c) == resumes[c].pc = "piping"

\* C32: mutual exclusion of resumes.  For one operation id at most one
\* resumeOperation call has passed the checks and is appending to the output
\* file.
C32_ResumeMutualExclusion ==
    Cardinality({c \in Calls : Appending(c)}) <= 1

\* The manager handles an 'error' or an 'exit' event of the worker of task t
\* in this step.
WorkerEventHandled(t) ==
    \/ thread[t] = "crashed" /\ thread'[t] = "exiting"
    \/ thread[t] = "exiting" /\ thread'[t] = "exited"

\* C33: cancelAllTasks is final for the tasks it covers.  When it returns the
\* active count is 0, the map of workers and the queue are empty; a cancelled
\* task is never in the map or in the queue again; and the 'error' and 'exit'
\* events handled afterwards for a cancelled task start no task and leave
\* the active count and the queue as they were.
C33_CancelAllFinal ==
    /\ [](\A t \in cancelledTasks : t \notin workers /\ ~Queued(t))
    /\ [][/\ CancelAllTasks =>
                /\ currentWorkerCount' = 0
                /\ workers' = {}
                /\ activeTasksQueue' = <<>>
          /\ \A t \in cancelledTasks :
                WorkerEventHandled(t) =>
                    /\ currentWorkerCount' = currentWorkerCount
                    /\ workers' = workers
                    /\ startOrder' = startOrder
                    /\ activeTasksQueue' = activeTasksQueue]_vars

\* Tasks 1 (running) and 2 (queued) were cancelled together, the 'exit' event
\* of the terminated worker of task 1 was handled, and task 3, submitted
\* later, has its worker.
C33_Witness ==
    /\ cancelledTasks = {1, 2}
    /\ thread[1] = "exited"
    /\ thread[2] = "none"
    /\ workers = {3}
    /\ currentWorkerCount = 1

\* C34: failure leaves an existing output untouched.  Under SpecOverwrite a
\* file with the content OldOutput is at each output path before the call
\* that writes there; when encryptFile or decryptFile has failed, the file at
\* its output path is still that file.
C34_FailureKeepsOutput ==
    /\ enc.pc = "failed" => files["enc"] = OldOutput
    /\ dec.pc = "failed" => files["dec"] = OldOutput

=============================================================================
